---- MODULE Spec2Model ----
(***************************************************************************)
(* Model of the per-lead decision pipeline of the Bitrix24 lead analyzer   *)
(* and of the batch runs that drive it.  Three analyzer classes exist in   *)
(* the repository and are modelled side by side:                           *)
(*   "base"     app/services/lead_analyzer.py     LeadAnalyzerService      *)
(*   "enhanced" enhanced/enhanced_lead_analyzer.py                         *)
(*                                        EnhancedLeadAnalyzerService      *)
(*   "db"       enhanced_analyzer_with_db.py      EnhancedLeadAnalyzerWithDB*)
(* Python None is modelled by NoJunk (junk codes), "None" (strings) and    *)
(* the empty sequence (optional texts and optional objects).               *)
(***************************************************************************)
EXTENDS Integers, Sequences, FiniteSets, TLC

VARIABLES
    variant,             \* which analyzer class this process instantiated
    crm,                 \* CRM state: lead id -> [status_id, junk_status]
    last_analysis_time,  \* the analyzer's last-run watermark
    now,                 \* logical clock read by datetime.now()
    batch,               \* the batch run in flight / last finished
    last,                \* trace of the most recent _analyze_single_lead call
    sched,               \* a DailyScheduler and the threads that call into it
    cache,               \* the transcription cache and the threads that resolve through it
    extcall,             \* one call of an external service and its attempts
    parsed,              \* a response text of the AI API and the verdict parsed from it
    hooks,               \* api_server: webhook tasks waiting to run, per lead
    unseen               \* CRM: leads marked junk that no new-leads batch has analysed since

analyzerVars == <<variant, crm, last_analysis_time, now, batch, last>>
sideVars == <<sched, cache, extcall, parsed, hooks, unseen>>
vars == <<variant, crm, last_analysis_time, now, batch, last, sched, cache, extcall, parsed,
          hooks, unseen>>

----------------------------------------------------------------------------
(* Bounds of the model *)

MaxUnanswered == 5   \* unanswered, unrecorded call records per lead: 0..MaxUnanswered
MaxRec == 2          \* recorded call records per lead: 0..MaxRec
MaxTime == 3         \* the logical clock stops at MaxTime
MaxLoops == 2        \* scheduler loop threads start() may create
MaxCallers == 2      \* threads that call force_run()
MaxClock == 1441     \* minutes of scheduler time
MaxBatchLeads == 2   \* leads the query of a scheduled batch returns: 0..MaxBatchLeads
MaxResolvers == 2    \* threads that call transcribe_url of the cached service
MaxResolves == 3     \* calls of transcribe_url made in all
MaxRefs == 2         \* recording references: 1..MaxRefs
MaxCalls == 2        \* external calls made one after the other
MaxLines == 3        \* non-empty lines of a response text of the AI API
MaxHooks == 1        \* webhook tasks of one lead waiting at a time

----------------------------------------------------------------------------
(* Configuration: app/config.py LeadStatusConfig *)

junk_status_value == "JUNK"
active_status_value == "NEW"
NoJunk == 0
CountBasedStatus == 158
SufficientCallsThreshold == 5
junk_statuses == {158, 227, 229, 783, 807}
ai_valid_statuses == {227, 229, 783, 807}
max_concurrent_leads == 10
AllJunkLimit == 100
DbNewLeadsLimit == 50

Variants == {"base", "enhanced", "db"}

(* The leads the CRM holds.  Lead 1 carries the count-based reason, lead 2  *)
(* an AI-based reason, lead 3 a code outside the recognized set.            *)
Leads == {1, 2, 3}
InitialJunk(l) == IF l = 1 THEN 158 ELSE IF l = 2 THEN 229 ELSE 999

Min(a, b) == IF a <= b THEN a ELSE b

----------------------------------------------------------------------------
(* app/models/lead.py *)

has_any_junk_status(lead) == lead.junk_status # NoJunk
has_target_junk_status(lead) == lead.junk_status \in {158, 227, 229, 783, 807}

(* LeadActivity.is_unsuccessful_call *)
is_unsuccessful_call(activity) ==
    /\ activity.type_id = "2"
    /\ activity.result \in {"UNSUCCESSFUL", "NO_ANSWER", "BUSY", "FAILED"}

(* Lead.unsuccessful_calls_count *)
RECURSIVE unsuccessful_calls_count(_)
unsuccessful_calls_count(activities) ==
    IF activities = <<>> THEN 0
    ELSE (IF is_unsuccessful_call(Head(activities)) THEN 1 ELSE 0)
         + unsuccessful_calls_count(Tail(activities))

----------------------------------------------------------------------------
(* app/models/analysis_result.py *)

(* A text is a sequence of tokens; TextOf(r) is the transcript of recording *)
(* r and Sep the "\n\n" separator written by str.join.                     *)
TextOf(r) == [kind |-> "text", of |-> r]
Sep == [kind |-> "sep", of |-> 0]

(* TranscriptionResult.is_successful: bool(transcription) and not error *)
tr_is_successful(tr) == tr.transcription # <<>> /\ tr.error = <<>>

(* AIAnalysisResult.is_successful: not error *)
ai_always_successful(ai) == TRUE
ai_is_successful(ai) == ai.error = <<>>

(* LeadAnalysisResult(lead_id, original_status, original_junk_status) *)
NewResult(lead_id, status_id, junk_status) ==
    [ lead_id |-> lead_id,
      original_status |-> status_id,
      original_junk_status |-> junk_status,
      action |-> "None",
      reason |-> "None",
      new_status |-> "None",
      new_junk_status |-> NoJunk,
      unsuccessful_calls_count |-> 0,
      transcription_results |-> <<>>,
      ai_analysis |-> <<>>,
      error_message |-> <<>>,
      completed |-> FALSE ]

mark_completed_never(r) == r

mark_completed(r) == [r EXCEPT !.completed = TRUE]

set_error(r, msg) ==
    [r EXCEPT !.error_message = msg,
              !.action = "error",
              !.reason = "api_error",
              !.completed = TRUE]

set_action(r, action, reason, new_status, new_junk_status) ==
    [r EXCEPT !.action = action,
              !.reason = reason,
              !.new_status = new_status,
              !.new_junk_status = new_junk_status]

add_transcription_result(r, tr) ==
    [r EXCEPT !.transcription_results = Append(@, tr)]

set_ai_analysis(r, ai) == [r EXCEPT !.ai_analysis = <<ai>>]

RECURSIVE JoinTextsNoSeparator(_)
JoinTextsNoSeparator(texts) ==
    IF texts = <<>> THEN <<>>
    ELSE texts[1] \o JoinTextsNoSeparator(Tail(texts))

(* "\n\n".join(texts) *)
RECURSIVE JoinTexts(_)
JoinTexts(texts) ==
    IF texts = <<>> THEN <<>>
    ELSE IF Len(texts) = 1 THEN texts[1]
    ELSE texts[1] \o <<Sep>> \o JoinTexts(Tail(texts))

RECURSIVE SuccessfulTexts(_)
SuccessfulTexts(trs) ==
    IF trs = <<>> THEN <<>>
    ELSE (IF tr_is_successful(Head(trs)) THEN <<Head(trs).transcription>> ELSE <<>>)
         \o SuccessfulTexts(Tail(trs))

(* LeadAnalysisResult.total_transcription_text *)
total_transcription_text(r) == JoinTexts(SuccessfulTexts(r.transcription_results))

----------------------------------------------------------------------------
(* The environment of one analysis: what the three external services       *)
(* answer.  A call record of voximplant.statistic.get carries the fields    *)
(* the code reads; a recording reference 0 stands for an absent key.        *)
(* CALL_STATUS is read together with CALL_RESULT against the same list and  *)
(* is folded into CALL_RESULT.                                              *)

UnansweredCall ==
    [ CALL_RESULT |-> "NO_ANSWER", CALL_DURATION |-> 0,
      RECORD_URL |-> 0, CALL_RECORD_URL |-> 0, CALL_FAILED_CODE |-> "304" ]

RecordedCall(r, code) ==
    [ CALL_RESULT |-> "", CALL_DURATION |-> IF code = "200" THEN 30 ELSE 0,
      RECORD_URL |-> r, CALL_RECORD_URL |-> r, CALL_FAILED_CODE |-> code ]

FailedCodes == {"200", "603"}

(* k unanswered calls followed by one recorded call per recording 1..n *)
CallData(k, codes) ==
    [i \in 1..k |-> UnansweredCall]
    \o [i \in 1..Len(codes) |-> RecordedCall(i, codes[i])]

CodeSeqs == UNION {[1..n -> FailedCodes] : n \in 0..MaxRec}

TransOutcomes == {"ok", "failed", "raise"}

(* What the AI API answers: every attempt raises, an empty response, or a   *)
(* response text that parses to a decision and an alternative status.       *)
AIOutcomes ==
    {[kind |-> "raise", decision |-> FALSE, alt |-> NoJunk],
     [kind |-> "no_response", decision |-> FALSE, alt |-> NoJunk]}
    \cup {[kind |-> "response", decision |-> d, alt |-> a] :
             d \in BOOLEAN, a \in {NoJunk, 227, 229}}

UpdateOutcomes == {"true", "false", "raise"}

----------------------------------------------------------------------------
(* app/services/bitrix_service.py *)

(* the unsuccessful-call test shared by get_lead_call_statistics and        *)
(* get_lead_activities                                                      *)
call_is_unsuccessful(call) ==
    \/ call.CALL_RESULT \in {"FAILED", "BUSY", "NO_ANSWER", "CANCEL"}
    \/ call.CALL_DURATION = 0

RECURSIVE stats_unsuccessful_calls(_)
stats_unsuccessful_calls(call_data) ==
    IF call_data = <<>> THEN 0
    ELSE (IF call_is_unsuccessful(Head(call_data)) THEN 1 ELSE 0)
         + stats_unsuccessful_calls(Tail(call_data))

RECURSIVE stats_audio_files(_)
stats_audio_files(call_data) ==
    IF call_data = <<>> THEN <<>>
    ELSE (IF Head(call_data).RECORD_URL # 0 THEN <<Head(call_data).RECORD_URL>> ELSE <<>>)
         \o stats_audio_files(Tail(call_data))

(* BitrixService.get_lead_call_statistics *)
get_lead_call_statistics(call_data) ==
    [ total_calls |-> Len(call_data),
      unsuccessful_calls |-> stats_unsuccessful_calls(call_data),
      audio_files |-> stats_audio_files(call_data),
      call_data |-> call_data ]

(* BitrixService.get_lead_activities *)
get_lead_activities(call_data) ==
    [ i \in 1..Len(call_data) |->
        [ type_id |-> "2",
          result |-> IF call_is_unsuccessful(call_data[i]) THEN "UNSUCCESSFUL" ELSE "SUCCESSFUL",
          audio_file |-> call_data[i].RECORD_URL ] ]

(* BitrixService.get_lead_audio_files *)
get_lead_audio_files(call_data) == get_lead_call_statistics(call_data).audio_files

(* the audio_files loop of the enhanced and the db analyzer *)
RECURSIVE connected_audio_files(_)
connected_audio_files(voximplant_data) ==
    IF voximplant_data = <<>> THEN <<>>
    ELSE (IF /\ Head(voximplant_data).CALL_RECORD_URL # 0
             /\ Head(voximplant_data).CALL_FAILED_CODE = "200"
          THEN <<Head(voximplant_data).CALL_RECORD_URL>> ELSE <<>>)
         \o connected_audio_files(Tail(voximplant_data))

----------------------------------------------------------------------------
(* the transcription services: transcribe_url returns a TranscriptionResult *)
(* or raises                                                                *)

transcribe_url(audio_file, outcome) ==
    IF outcome = "ok"
    THEN [audio_file |-> audio_file, transcription |-> <<TextOf(audio_file)>>, error |-> <<>>]
    ELSE [audio_file |-> audio_file, transcription |-> <<>>, error |-> <<"TranscriptionError">>]

(* enhanced_analyzer_with_db.py: CachedTranscriptionService, the cache rows  *)
(* _get_audio_hash: the SHA-256 digest of the reference, taken as injective *)
get_audio_hash(audio_url) == [sha256 |-> audio_url]

(* _get_cached_transcription: the rows filtered by audio_hash *)
get_cached_never(rows, audio_url) == {}
get_cached_transcription(rows, audio_url) ==
    {row \in rows : row.audio_hash = get_audio_hash(audio_url)}

(* the Transcription row _save_transcription_to_cache builds *)
CacheRow(audio_url, data) ==
    [ audio_hash |-> get_audio_hash(audio_url),
      transcription_text |-> data.transcription,
      is_successful |-> data.is_successful,
      error_message |-> data.error ]

(* db.commit() of a new row: audio_hash is unique, a second row with the     *)
(* same hash raises IntegrityError                                           *)
CommitRaises(rows, audio_url) ==
    \E row \in rows : row.audio_hash = get_audio_hash(audio_url)

(* the dict built from a cached row *)
FromCache(row) ==
    [ transcription |-> row.transcription_text,
      is_successful |-> row.is_successful,
      error |-> row.error_message,
      from_cache |-> TRUE ]

(* CachedTranscriptionService.transcribe_url on a cache hit: the             *)
(* TranscriptionResult built from the dict of the cached row                 *)
CachedResultWithoutText(audio_file, row) ==
    [audio_file |-> audio_file, transcription |-> <<>>, error |-> FromCache(row).error]
CachedResult(audio_file, row) ==
    [audio_file |-> audio_file,
     transcription |-> FromCache(row).transcription,
     error |-> FromCache(row).error]

----------------------------------------------------------------------------
(* app/services/gemini_service.py and enhanced/enhanced_gemini.py           *)

IsBlank(text) == \A i \in 1..Len(text) : text[i].kind = "sep"

(* AIAnalysisResult(is_suitable=False, error=msg).  attrs lists the          *)
(* attributes set on the object besides the dataclass fields.               *)
ErrorVerdict(msg) ==
    [is_suitable |-> FALSE, error |-> <<msg>>, attrs |-> {},
     alternative_status |-> NoJunk]

(* GeminiService.analyze_lead_status *)
gemini_analyze_lead_status(transcription, current_junk_status, outcome) ==
    IF IsBlank(transcription) THEN ErrorVerdict("Empty transcription provided")
    ELSE IF current_junk_status \notin junk_statuses THEN ErrorVerdict("Unknown junk status")
    ELSE IF outcome.kind = "raise" THEN ErrorVerdict("AIError")
    ELSE IF outcome.kind = "no_response" THEN ErrorVerdict("No response from Gemini AI")
    ELSE [is_suitable |-> outcome.decision, error |-> <<>>, attrs |-> {},
          alternative_status |-> NoJunk]

(* EnhancedGeminiService.analyze_lead_status *)
enhanced_analyze_lead_status(transcription, current_junk_status, outcome) ==
    IF IsBlank(transcription) THEN ErrorVerdict("Empty transcription provided")
    ELSE IF current_junk_status \notin ai_valid_statuses THEN ErrorVerdict("Unknown junk status")
    ELSE IF outcome.kind = "raise" THEN ErrorVerdict("AIError")
    ELSE IF outcome.kind = "no_response" THEN ErrorVerdict("No response from Gemini AI")
    ELSE [is_suitable |-> outcome.decision, error |-> <<>>,
          attrs |-> {"alternative_status"},
          alternative_status |-> outcome.alt]

analyze_lead_status(v, transcription, current_junk_status, outcome) ==
    IF v = "base" THEN gemini_analyze_lead_status(transcription, current_junk_status, outcome)
    ELSE enhanced_analyze_lead_status(transcription, current_junk_status, outcome)

----------------------------------------------------------------------------
(* The analyzers.  An analysis state st carries the LeadAnalysisResult      *)
(* being built and the calls made to the external services so far.          *)

(* the external calls of one analysis in the order they return: the          *)
(* statements of _analyze_single_lead and of the methods it calls run one    *)
(* after the other on one thread, each call returning before the next starts *)
IssuedFirst(log, call) == <<call>> \o log

Issued(log, call) == Append(log, call)

StartState(lead) ==
    [ result |-> NewResult(lead.id, lead.status_id, lead.junk_status),
      evidence_calls |-> 0,
      evidence_ok |-> FALSE,
      audio_files |-> <<>>,
      transcribe_calls |-> 0,
      ai_calls |-> 0,
      ai_input |-> <<>>,
      updates |-> <<>>,
      log |-> <<>> ]

(* BitrixService.update_lead_complete: the params of its one                 *)
(* crm.lead.update request; both fields are always in "fields", the junk     *)
(* field with None (NoJunk) when it is cleared                               *)
main_status_field == "STATUS_ID"
junk_status_field == "UF_CRM_1751812306933"
update_lead_status_alone(lead_id, new_status, new_junk_status) ==
    [ ID |-> lead_id,
      fields |-> [f \in {main_status_field} |-> new_status] ]
update_lead_complete(lead_id, new_status, new_junk_status) ==
    [ ID |-> lead_id,
      fields |-> (main_status_field :> new_status) @@
                 (junk_status_field :> IF new_junk_status # NoJunk
                                       THEN new_junk_status ELSE NoJunk) ]

UpdateIgnoringDryRun(st, lead_id, new_status, new_junk_status, dry_run, env, prefix) ==
    LET call == [ lead_id |-> lead_id, status |-> new_status,
                  junk |-> new_junk_status,
                  action_at_call |-> st.result.action,
                  outcome |-> env.update,
                  request |-> update_lead_complete(lead_id, new_status, new_junk_status) ]
        st1 == [st EXCEPT !.updates = Append(@, call),
                              !.log = Issued(@, "update")]
    IN  IF env.update = "true" THEN st1
        ELSE IF env.update = "false"
        THEN [st1 EXCEPT !.result = set_error(@, <<"Failed to update lead status">>)]
        ELSE [st1 EXCEPT !.result = set_error(@, <<prefix, "BitrixAPIError">>)]

(* "if not dry_run: success = update_lead_complete(...); if not success:    *)
(* result.set_error(...)"; an exception of update_lead_complete is caught   *)
(* by the enclosing except clause, which calls set_error with its prefix.   *)
UpdateIfNotDryRun(st, lead_id, new_status, new_junk_status, dry_run, env, prefix) ==
    IF dry_run THEN st
    ELSE LET call == [ lead_id |-> lead_id, status |-> new_status,
                       junk |-> new_junk_status,
                       action_at_call |-> st.result.action,
                       outcome |-> env.update,
                       request |-> update_lead_complete(lead_id, new_status, new_junk_status) ]
             st1 == [st EXCEPT !.updates = Append(@, call),
                              !.log = Issued(@, "update")]
         IN  IF env.update = "true" THEN st1
             ELSE IF env.update = "false"
             THEN [st1 EXCEPT !.result = set_error(@, <<"Failed to update lead status">>)]
             ELSE [st1 EXCEPT !.result = set_error(@, <<prefix, "BitrixAPIError">>)]

CallsErrorPrefix(v) ==
    IF v = "db" THEN "Error analyzing calls: " ELSE "Error analyzing unsuccessful calls: "

(* _analyze_unsuccessful_calls / _analyze_unsuccessful_calls_with_db *)
analyze_unsuccessful_calls_zero_on_failure(v, lead, st, dry_run, env) ==
    LET fetched == [st EXCEPT !.evidence_calls = @ + 1,
                              !.log = Issued(@, "evidence")]
        unsuccessful_calls ==
            IF env.fetch = "raise" THEN 0
            ELSE IF v = "db"
            THEN get_lead_call_statistics(env.call_data).unsuccessful_calls
            ELSE unsuccessful_calls_count(get_lead_activities(env.call_data))
        counted == [fetched EXCEPT !.evidence_ok = (env.fetch # "raise"),
                                   !.result.unsuccessful_calls_count = unsuccessful_calls]
    IN  IF unsuccessful_calls >= SufficientCallsThreshold
        THEN [counted EXCEPT !.result =
                 set_action(@, "keep_status", "sufficient_calls", "None", NoJunk)]
        ELSE UpdateIfNotDryRun(
                 [counted EXCEPT !.result =
                     set_action(@, "change_status", "insufficient_calls",
                                active_status_value, NoJunk)],
                 lead.id, active_status_value, NoJunk, dry_run, env,
                 CallsErrorPrefix(v))

analyze_unsuccessful_calls(v, lead, st, dry_run, env) ==
    LET fetched == [st EXCEPT !.evidence_calls = @ + 1,
                              !.log = Issued(@, "evidence")] IN
    IF env.fetch = "raise"
    THEN [fetched EXCEPT !.result = set_error(@, <<CallsErrorPrefix(v), "BitrixAPIError">>)]
    ELSE
      LET unsuccessful_calls ==
              IF v = "db"
              THEN get_lead_call_statistics(env.call_data).unsuccessful_calls
              ELSE unsuccessful_calls_count(get_lead_activities(env.call_data))
          counted == [fetched EXCEPT !.evidence_ok = TRUE,
                                     !.result.unsuccessful_calls_count = unsuccessful_calls]
      IN  IF unsuccessful_calls >= SufficientCallsThreshold
          THEN [counted EXCEPT !.result =
                   set_action(@, "keep_status", "sufficient_calls", "None", NoJunk)]
          ELSE UpdateIfNotDryRun(
                   [counted EXCEPT !.result =
                       set_action(@, "change_status", "insufficient_calls",
                                  active_status_value, NoJunk)],
                   lead.id, active_status_value, NoJunk, dry_run, env,
                   CallsErrorPrefix(v))

(* the "for audio_file in audio_files" loop: a raised exception becomes an  *)
(* error TranscriptionResult                                                *)
TranscribeAll(audio_files, trans) ==
    [ i \in 1..Len(audio_files) |->
        IF trans[audio_files[i]] = "raise"
        THEN [audio_file |-> audio_files[i], transcription |-> <<>>, error |-> <<"Exception">>]
        ELSE transcribe_url(audio_files[i], trans[audio_files[i]]) ]

(* the same loop in EnhancedLeadAnalyzerWithDB, whose transcription service  *)
(* answers from the cache rows when the recording has one                    *)
TranscribeAllCached(audio_files, trans, rows) ==
    [ i \in 1..Len(audio_files) |->
        LET cached == get_cached_transcription(rows, audio_files[i]) IN
        IF cached # {}
        THEN CachedResult(audio_files[i], CHOOSE row \in cached : TRUE)
        ELSE TranscribeAll(audio_files, trans)[i] ]

(* the rows the resolves of one analysis leave in an empty cache: one per    *)
(* recording whose resolve returned, none for a resolve that raised          *)
RowsWritten(audio_files, trans) ==
    { CacheRow(audio_files[i],
               [ transcription |-> TranscribeAll(audio_files, trans)[i].transcription,
                 is_successful |-> TranscribeAll(audio_files, trans)[i].transcription # <<>>,
                 error |-> TranscribeAll(audio_files, trans)[i].error ]) :
        i \in {j \in 1..Len(audio_files) : trans[audio_files[j]] # "raise"} }

(* "if not audio_files" *)
no_audio_files_never(audio_files) == FALSE
no_audio_files(audio_files) == audio_files = <<>>

AnySuccessful(trs) == \E i \in 1..Len(trs) : tr_is_successful(trs[i])

(* the decision taken from a successful verdict *)
DecideFromVerdict(v, lead, st, ai, dry_run, env) ==
    LET to_active ==
            UpdateIfNotDryRun(
                [st EXCEPT !.result = set_action(@, "change_status", "ai_not_suitable",
                                                 active_status_value, NoJunk)],
                lead.id, active_status_value, NoJunk, dry_run, env,
                "Error in AI analysis: ")
        to_alternative ==
            UpdateIfNotDryRun(
                [st EXCEPT !.result = set_action(@, "change_status", "ai_not_suitable",
                                                 junk_status_value, ai.alternative_status)],
                lead.id, junk_status_value, ai.alternative_status, dry_run, env,
                "Error in AI analysis: ")
        keep == [st EXCEPT !.result = set_action(@, "keep_status", "ai_suitable", "None", NoJunk)]
    IN
    IF v = "base" THEN
        IF ai.is_suitable THEN keep ELSE to_active
    ELSE IF v = "enhanced" THEN
        IF ai.is_suitable THEN
            \* ai_result.has_alternative_status: no class defines this attribute
            IF "has_alternative_status" \notin ai.attrs
            THEN [st EXCEPT !.result = set_error(@, <<"Error in AI analysis: ", "AttributeError">>)]
            ELSE IF ai.alternative_status # NoJunk THEN to_alternative ELSE keep
        ELSE to_active
    ELSE
        IF ai.is_suitable THEN
            IF "alternative_status" \in ai.attrs /\ ai.alternative_status # NoJunk
            THEN to_alternative ELSE keep
        ELSE to_active

(* "for audio_file in audio_files": one transcribe call per recording *)
RECURSIVE ResolvesIssued(_, _)
ResolvesIssued(log, n) ==
    IF n = 0 THEN log ELSE ResolvesIssued(Issued(log, "resolve"), n - 1)

(* _analyze_with_ai / _analyze_with_ai_transcription / _analyze_with_ai_and_db *)
analyze_with_ai(v, lead, st, dry_run, env) ==
    LET fetched == [st EXCEPT !.evidence_calls = @ + 1,
                              !.log = Issued(@, "evidence")] IN
    IF env.fetch = "raise"
    THEN [fetched EXCEPT !.result = set_error(@, <<"Error in AI analysis: ", "BitrixAPIError">>)]
    ELSE
      LET audio_files == IF v = "base" THEN get_lead_audio_files(env.call_data)
                         ELSE connected_audio_files(env.call_data)
      IN
      IF no_audio_files(audio_files)
      THEN [fetched EXCEPT !.evidence_ok = TRUE,
                           !.result = set_action(@, "skip", "no_audio_files", "None", NoJunk)]
      ELSE
        LET transcription_results ==
                IF v = "db" THEN TranscribeAllCached(audio_files, env.trans, env.cache)
                ELSE TranscribeAll(audio_files, env.trans)
            transcribed == [fetched EXCEPT
                               !.evidence_ok = TRUE,
                               !.audio_files = audio_files,
                               !.transcribe_calls = Len(audio_files),
                               !.log = ResolvesIssued(@, Len(audio_files)),
                               !.result.transcription_results = transcription_results]
        IN
        IF ~AnySuccessful(transcription_results)
        THEN [transcribed EXCEPT !.result =
                 set_action(@, "skip", "no_transcription", "None", NoJunk)]
        ELSE
          LET combined_transcription ==
                  IF v = "base" THEN total_transcription_text(transcribed.result)
                  ELSE JoinTexts(SuccessfulTexts(transcription_results))
              ai_result == analyze_lead_status(v, combined_transcription,
                                               lead.junk_status, env.ai)
              analysed == [transcribed EXCEPT
                              !.ai_calls = @ + 1,
                              !.log = Issued(@, "classify"),
                              !.ai_input = combined_transcription,
                              !.result = set_ai_analysis(@, ai_result)]
          IN
          IF ~ai_is_successful(ai_result)
          THEN [analysed EXCEPT !.result =
                   set_error(@, <<"AI analysis failed: ", ai_result.error[1]>>)]
          ELSE DecideFromVerdict(v, lead, analysed, ai_result, dry_run, env)

(* _analyze_single_lead / _analyze_single_lead_with_db *)
analyze_single_lead(v, lead, dry_run, env) ==
    LET st == StartState(lead)
        is_target == IF v = "base" THEN has_target_junk_status(lead)
                     ELSE lead.junk_status \in junk_statuses
    IN
    IF ~is_target
    THEN [st EXCEPT !.result =
             mark_completed(set_action(@, "skip", "not_target_status", "None", NoJunk))]
    ELSE
      LET done == IF lead.junk_status = CountBasedStatus
                  THEN analyze_unsuccessful_calls(v, lead, st, dry_run, env)
                  ELSE analyze_with_ai(v, lead, st, dry_run, env)
      IN [done EXCEPT !.result = mark_completed(@)]

----------------------------------------------------------------------------
(* The environments one analysis can meet.  Only the answers the analysis   *)
(* asks for are varied: the transcription outcomes of the audio files it    *)
(* transcribes, the AI outcome if it calls the classifier, the update       *)
(* outcome if it calls lead-update.                                         *)

DefaultEnv ==
    [ fetch |-> "ok",
      call_data |-> <<>>,
      trans |-> [r \in 1..MaxRec |-> "ok"],
      ai |-> [kind |-> "response", decision |-> TRUE, alt |-> NoJunk],
      update |-> "true",
      cache |-> {} ]

(* the base classifier reads no alternative status from the response *)
AIOutcomesFor(v) == IF v = "base" THEN {o \in AIOutcomes : o.alt = NoJunk} ELSE AIOutcomes

EnvsForUpdate(v, lead, dry_run, env) ==
    IF analyze_single_lead(v, lead, dry_run, env).updates = <<>>
    THEN {env}
    ELSE {[env EXCEPT !.update = u] : u \in UpdateOutcomes}

EnvsForAI(v, lead, dry_run, env) ==
    IF analyze_single_lead(v, lead, dry_run, env).ai_calls = 0
    THEN EnvsForUpdate(v, lead, dry_run, env)
    ELSE UNION {EnvsForUpdate(v, lead, dry_run, [env EXCEPT !.ai = a]) : a \in AIOutcomesFor(v)}

EnvsForCalls(v, lead, dry_run, env) ==
    LET n == analyze_single_lead(v, lead, dry_run, env).transcribe_calls
        audio == {analyze_single_lead(v, lead, dry_run, env).result.transcription_results[i].audio_file :
                     i \in 1..n}
        choices == {t \in [1..MaxRec -> TransOutcomes] : \A r \in (1..MaxRec) \ audio : t[r] = "ok"}
    IN UNION {EnvsForAI(v, lead, dry_run, [env EXCEPT !.trans = t]) : t \in choices}

UnansweredRange(lead) ==
    IF lead.junk_status = CountBasedStatus THEN 0..MaxUnanswered ELSE 0..1

Envs(v, lead, dry_run) ==
    IF lead.junk_status \notin junk_statuses THEN {DefaultEnv}
    ELSE {[DefaultEnv EXCEPT !.fetch = "raise"]}
         \cup UNION {EnvsForCalls(v, lead, dry_run,
                                  [DefaultEnv EXCEPT !.call_data = CallData(k, codes)]) :
                        k \in UnansweredRange(lead), codes \in CodeSeqs}

----------------------------------------------------------------------------
(* The CRM *)

DateCreate(l) == IF l = 1 THEN 0 ELSE 1

Snapshot(l) == [id |-> l, status_id |-> crm[l].status_id, junk_status |-> crm[l].junk_status]

(* crm.lead.list: STATUS_ID, junk-status field in the list, >=DATE_CREATE,  *)
(* rows limit; date_from < 0 stands for no date bound                       *)
Matches(l, date_from) ==
    /\ crm[l].status_id = junk_status_value
    /\ crm[l].junk_status \in junk_statuses
    /\ DateCreate(l) >= date_from

RECURSIVE LeadsFrom(_, _)
LeadsFrom(l, date_from) ==
    IF l \notin Leads THEN <<>>
    ELSE (IF Matches(l, date_from) THEN <<Snapshot(l)>> ELSE <<>>)
         \o LeadsFrom(l + 1, date_from)

get_leads(date_from, limit) ==
    LET all == LeadsFrom(1, date_from) IN SubSeq(all, 1, Min(limit, Len(all)))

(* the effect of the lead-update calls that succeeded *)
ApplyUpdates(c, updates, env) ==
    IF updates # <<>> /\ env.update = "true"
    THEN LET req == updates[1].request IN
         [c EXCEPT ![req.ID].status_id =
                       IF main_status_field \in DOMAIN req.fields
                       THEN req.fields[main_status_field] ELSE @,
                   ![req.ID].junk_status =
                       IF junk_status_field \in DOMAIN req.fields
                       THEN req.fields[junk_status_field] ELSE @]
    ELSE c

----------------------------------------------------------------------------
(* State *)

IdleBatch(outcome, dry_run, results) ==
    [mode |-> "idle", dry_run |-> dry_run, queue |-> <<>>, results |-> results,
     outcome |-> outcome, fetched |-> <<>>, query |-> "none", entry |-> "none"]

(* the ids of the leads the lead-list query returned, in order *)
RECURSIVE LeadIds(_)
LeadIds(leads) ==
    IF leads = <<>> THEN <<>> ELSE <<Head(leads).id>> \o LeadIds(Tail(leads))

(* the decision fields of a result *)
Decision(r) ==
    [action |-> r.action, reason |-> r.reason,
     new_status |-> r.new_status, new_junk_status |-> r.new_junk_status]

(* _save_analysis_to_db commits to the ledger and can raise; only           *)
(* EnhancedLeadAnalyzerWithDB persists results                              *)
SaveOutcomes(v) == IF v = "db" THEN {"ok", "raise"} ELSE {"ok"}

(* db_manager.set_config_value commits to the database and can raise; the   *)
(* other analyzers assign an attribute                                      *)
ConfigWriteOutcomes(v) == IF v = "db" THEN {"ok", "raise"} ELSE {"ok"}

(* the LeadAnalysisResult built by an except clause outside                 *)
(* _analyze_single_lead                                                     *)
ErrorResult(lead, msg) ==
    set_error(NewResult(lead.id, lead.status_id, lead.junk_status), <<msg>>)

(* what a batch keeps of a lead's result *)
Summary(r) ==
    [lead_id |-> r.lead_id, action |-> r.action, reason |-> r.reason,
     completed |-> r.completed]

Trace(kind, dry_run, returned, st) ==
    [ kind |-> kind, dry_run |-> dry_run, returned |-> returned,
      result |-> st.result,
      evidence_calls |-> st.evidence_calls,
      evidence_ok |-> st.evidence_ok,
      audio_files |-> st.audio_files,
      transcribe_calls |-> st.transcribe_calls,
      ai_calls |-> st.ai_calls,
      ai_input |-> st.ai_input,
      updates |-> st.updates,
      log |-> st.log,
      twin |-> Decision(st.result),
      again |-> [action |-> st.result.action, reason |-> st.result.reason, served |-> 0],
      asked |-> 0,
      lookup |-> "none",
      unconnected |-> {} ]

(* the action and reason a second analysis of the same lead gives when the  *)
(* services answer as they did the first time and, for the analyzer with the *)
(* cache, the transcripts of the recordings the first analysis resolved come *)
(* from the rows it wrote; served counts the transcripts taken from them     *)
AnalysedAgain(v, lead, dry_run, env) ==
    LET first == analyze_single_lead(v, lead, dry_run, env)
        rows == IF v = "db" THEN RowsWritten(first.audio_files, env.trans) ELSE {}
        second == analyze_single_lead(v, lead, dry_run, [env EXCEPT !.cache = rows])
    IN  [ action |-> second.result.action,
          reason |-> second.result.reason,
          served |-> Cardinality({i \in 1..Len(second.audio_files) :
                                     get_cached_transcription(rows, second.audio_files[i]) # {}}) ]

(* the recordings an analysis handed to the transcription service *)
Transcribed(r) ==
    { r.transcription_results[i].audio_file : i \in 1..Len(r.transcription_results) }

(* the recordings of the call records whose call attempt did not connect     *)
(* (CALL_FAILED_CODE other than "200")                                       *)
UnconnectedRecordings(call_data) ==
    { call_data[i].CALL_RECORD_URL : i \in { j \in 1..Len(call_data) :
          call_data[j].CALL_FAILED_CODE # "200" } } \ {0}

(* the trace of an analysis together with the decision the same lead and    *)
(* the same answers of the services give under the other dry_run flag       *)
AnalysisTrace(kind, v, lead, dry_run, env) ==
    [Trace(kind, dry_run, "result", analyze_single_lead(v, lead, dry_run, env))
        EXCEPT !.twin = Decision(analyze_single_lead(v, lead, ~dry_run, env).result),
               !.again = AnalysedAgain(v, lead, dry_run, env),
               !.unconnected =
                   UnconnectedRecordings(env.call_data) \cap
                   Transcribed(analyze_single_lead(v, lead, dry_run, env).result)]

(* app/utils/validators.py validate_lead_id: a non-empty string of digits;   *)
(* a lead ID that is not one is stood for by a negative number               *)
validate_lead_id_any(lead_id) == TRUE

validate_lead_id(lead_id) == lead_id >= 0

(* the IDs analyze_lead_by_id is asked for: the CRM's leads, a well-formed   *)
(* ID the CRM has no lead for, and a malformed one                           *)
AbsentId == 4
MalformedId == -1
RequestedIds == Leads \cup {AbsentId, MalformedId}

NoLead == [id |-> 0, status_id |-> "None", junk_status |-> NoJunk]

(* DailyScheduler.__init__: not running, no thread, no run time; None is -1 *)
LoopIds == 1..MaxLoops
CallerIds == 1..MaxCallers
SchedIdle ==
    [ running |-> FALSE,
      stop_event |-> FALSE,
      thread |-> 0,
      loops |-> [i \in LoopIds |-> "unborn"],
      callers |-> [c \in CallerIds |-> "idle"],
      stopper |-> "idle",
      stop_outcome |-> "none",
      stop_returns |-> "none",
      left |-> [i \in LoopIds |-> 0],
      late |-> [i \in LoopIds |-> FALSE],
      last_run_time |-> -1,
      next_run_time |-> -1,
      clock |-> 0 ]

(* CachedTranscriptionService.__init__ in front of an empty transcriptions    *)
(* table: no row, no thread inside transcribe_url, nothing returned yet      *)
ResolverIds == 1..MaxResolvers
Refs == 1..MaxRefs
NoData == [transcription |-> <<>>, is_successful |-> FALSE, error |-> <<>>, from_cache |-> FALSE]
ResolverIdle ==
    [ pc |-> "idle", url |-> 0, data |-> NoData, error |-> <<>>,
      downloads |-> 0, posts |-> 0, after_first |-> FALSE ]
CacheIdle ==
    [ rows |-> {},
      resolvers |-> [p \in ResolverIds |-> ResolverIdle],
      first |-> [u \in Refs |-> <<>>],
      started |-> 0,
      ledger |-> {},
      stale |-> {},
      cleaned |-> FALSE ]

(* no external call is in progress and none has been made *)
CallIdle ==
    [ pc |-> "idle", client |-> "none", endpoint |-> "none", attempt |-> 0,
      log |-> <<>>, sleeps |-> <<>>, result |-> "none", made |-> 0 ]

(* analyze_lead_status has not been called: no text, no API call, no        *)
(* response of the AI API, no verdict                                        *)
ParseIdle ==
    [ pc |-> "idle", parser |-> "none", transcription |-> <<>>,
      current_junk_status |-> NoJunk, api_calls |-> 0,
      response |-> <<>>, verdict |-> <<>> ]

(* api_server: no webhook has been received *)
HooksIdle == [l \in Leads |-> 0]

(* every subsystem beside the analyzer in its constructed state *)
SideIdle ==
    /\ sched = SchedIdle /\ cache = CacheIdle /\ extcall = CallIdle /\ parsed = ParseIdle
    /\ hooks = HooksIdle
    /\ unseen = {}

(* an analyzer just constructed, in front of a CRM that holds the leads *)
AnalyzerIdle ==
    /\ crm = [l \in Leads |-> [status_id |-> junk_status_value, junk_status |-> InitialJunk(l)]]
    /\ now = 1
    /\ last_analysis_time = 0
    /\ batch = IdleBatch("none", FALSE, <<>>)
    /\ last = Trace("none", FALSE, "none", StartState(NoLead))

Init ==
    /\ variant \in Variants
    /\ AnalyzerIdle
    /\ SideIdle

(* no operation is executing and the caller holds no returned value *)
Ready == batch.mode = "idle" /\ batch.outcome = "none" /\ last.kind = "none"

(* analyze_new_leads up to the lead loop; an exception of the lead-list      *)
(* query reaches the outer except clause, which raises LeadAnalyzerError     *)
StartNewLeadsSwallowsQueryError(dry_run, query) ==
    /\ Ready
    /\ now < MaxTime
    /\ IF query = "raise"
       THEN batch' = [IdleBatch("returned", dry_run, <<>>) EXCEPT
                         !.query = "raise", !.entry = "new_leads"]
       ELSE LET limit == IF variant = "db" THEN DbNewLeadsLimit ELSE max_concurrent_leads
                leads == get_leads(last_analysis_time, limit)
            IN  IF leads = <<>>
                THEN batch' = [IdleBatch("returned", dry_run, <<>>) EXCEPT
                                  !.query = "ok", !.entry = "new_leads"]
                ELSE batch' = [mode |-> "new_leads", dry_run |-> dry_run, queue |-> leads,
                               results |-> <<>>, outcome |-> "none",
                               fetched |-> LeadIds(leads), query |-> "ok",
                               entry |-> "new_leads"]
    /\ UNCHANGED <<variant, crm, last_analysis_time, now, last>>
    /\ UNCHANGED sideVars

StartNewLeads(dry_run, query) ==
    /\ Ready
    /\ now < MaxTime
    /\ IF query = "raise"
       THEN batch' = [IdleBatch("raised", dry_run, <<>>) EXCEPT
                         !.query = "raise", !.entry = "new_leads"]
       ELSE LET limit == IF variant = "db" THEN DbNewLeadsLimit ELSE max_concurrent_leads
                leads == get_leads(last_analysis_time, limit)
            IN  IF leads = <<>>
                THEN batch' = [IdleBatch("returned", dry_run, <<>>) EXCEPT
                                  !.query = "ok", !.entry = "new_leads"]
                ELSE batch' = [mode |-> "new_leads", dry_run |-> dry_run, queue |-> leads,
                               results |-> <<>>, outcome |-> "none",
                               fetched |-> LeadIds(leads), query |-> "ok",
                               entry |-> "new_leads"]
    /\ UNCHANGED <<variant, crm, last_analysis_time, now, last>>
    /\ UNCHANGED sideVars

(* analyze_all_junk_leads up to the lead loop; only LeadAnalyzerService has it *)
StartAllJunk(dry_run, query) ==
    /\ Ready
    /\ variant = "base"
    /\ IF query = "raise"
       THEN batch' = [IdleBatch("raised", dry_run, <<>>) EXCEPT
                         !.query = "raise", !.entry = "all_junk"]
       ELSE LET leads == get_leads(-1, AllJunkLimit)
            IN  IF leads = <<>>
                THEN batch' = [IdleBatch("returned", dry_run, <<>>) EXCEPT
                                  !.query = "ok", !.entry = "all_junk"]
                ELSE batch' = [mode |-> "all_junk", dry_run |-> dry_run, queue |-> leads,
                               results |-> <<>>, outcome |-> "none",
                               fetched |-> LeadIds(leads), query |-> "ok",
                               entry |-> "all_junk"]
    /\ UNCHANGED <<variant, crm, last_analysis_time, now, last>>
    /\ UNCHANGED sideVars

(* EnhancedLeadAnalyzerService.__init__: a new analyzer starts with the       *)
(* watermark one check interval before the time of its construction          *)
FreshWatermark == now - 1

(* main_app.py run_all_junk_analysis, the all-junk mode of the enhanced      *)
(* application: it constructs an EnhancedLeadAnalyzerService of its own and  *)
(* calls its analyze_new_leads; the watermark that batch reads and stamps is *)
(* the attribute of this analyzer, which is closed when the run ends         *)
RunAllJunkAnalysis(dry_run, query) ==
    /\ Ready
    /\ variant = "enhanced"
    /\ IF query = "raise"
       THEN batch' = [IdleBatch("raised", dry_run, <<>>) EXCEPT
                         !.query = "raise", !.entry = "all_junk"]
       ELSE LET leads == get_leads(FreshWatermark, max_concurrent_leads)
            IN  IF leads = <<>>
                THEN batch' = [IdleBatch("returned", dry_run, <<>>) EXCEPT
                                  !.query = "ok", !.entry = "all_junk"]
                ELSE batch' = [mode |-> "all_junk", dry_run |-> dry_run, queue |-> leads,
                               results |-> <<>>, outcome |-> "none",
                               fetched |-> LeadIds(leads), query |-> "ok",
                               entry |-> "all_junk"]
    /\ UNCHANGED <<variant, crm, last_analysis_time, now, last>>
    /\ UNCHANGED sideVars

(* one iteration of "for lead in leads": the result is added, then saved    *)
(* to the ledger; an exception of the save reaches the except clause of the *)
(* loop body, which adds an error result                                    *)
AnalyzeNextLeadIn(world) ==
    /\ batch.mode # "idle"
    /\ batch.queue # <<>>
    /\ LET lead == Head(batch.queue) IN
       \E env \in world, save \in SaveOutcomes(variant) :
          LET st == analyze_single_lead(variant, lead, batch.dry_run, env)
              added == Append(batch.results, Summary(st.result))
          IN
          /\ last' = AnalysisTrace(batch.mode, variant, lead, batch.dry_run, env)
          /\ crm' = ApplyUpdates(crm, st.updates, env)
          /\ batch' = [batch EXCEPT
                          !.queue = Tail(@),
                          !.results = IF save = "ok" THEN added
                                      ELSE Append(added, Summary(ErrorResult(lead, "DBError")))]
    /\ UNCHANGED <<variant, last_analysis_time, now>>

AnalyzeNextLead ==
    AnalyzeNextLeadIn(Envs(variant, Head(batch.queue), batch.dry_run))

BatchStep ==
    /\ AnalyzeNextLead
    /\ UNCHANGED sideVars

(* KeyboardInterrupt or SystemExit raised inside the lead loop (in          *)
(* time.sleep, say) is no Exception: no except clause catches it and the    *)
(* batch ends without reaching the statements after the loop                *)
InterruptBatch ==
    /\ batch.mode # "idle"
    /\ batch' = IdleBatch("interrupted", batch.dry_run, <<>>)
    /\ UNCHANGED <<variant, crm, last_analysis_time, now, last>>
    /\ UNCHANGED sideVars

FinishBatchStampsEveryMode ==
    /\ batch.mode # "idle"
    /\ batch.queue = <<>>
    /\ last_analysis_time' = now
    /\ now' = now + 1
    /\ batch' = [IdleBatch("returned", batch.dry_run, batch.results)
                    EXCEPT !.fetched = batch.fetched]
    /\ UNCHANGED <<variant, crm, last>>
    /\ UNCHANGED sideVars

(* after the loop: the watermark, mark_completed, return *)
FinishBatch ==
    /\ batch.mode # "idle"
    /\ batch.queue = <<>>
    /\ \E write \in ConfigWriteOutcomes(variant) :
          IF batch.mode = "new_leads" /\ write = "raise"
          THEN /\ batch' = IdleBatch("raised", batch.dry_run, <<>>)
               /\ UNCHANGED <<last_analysis_time, now>>
          ELSE /\ IF batch.mode = "new_leads"
                  THEN last_analysis_time' = now /\ now' = now + 1
                  ELSE UNCHANGED <<last_analysis_time, now>>
               /\ batch' = [IdleBatch("returned", batch.dry_run, batch.results)
                               EXCEPT !.fetched = batch.fetched]
    /\ UNCHANGED <<variant, crm, last>>
    /\ UNCHANGED sideVars

(* analyze_lead_by_id *)
AnalyzeById(l, dry_run, get) ==
    /\ Ready
    /\ IF ~validate_lead_id(l)
       THEN /\ last' = [Trace("by_id", dry_run, "error_result",
                              [StartState([NoLead EXCEPT !.id = l]) EXCEPT
                                  !.result = set_error(@, <<"ValidationError">>)])
                            EXCEPT !.asked = l, !.lookup = "invalid"]
            /\ crm' = crm
       ELSE IF get = "raise"
       THEN /\ last' = [Trace("by_id", dry_run, "error_result",
                              [StartState([NoLead EXCEPT !.id = l]) EXCEPT
                                  !.result = set_error(@, <<"BitrixAPIError">>)])
                            EXCEPT !.asked = l, !.lookup = "raise"]
            /\ crm' = crm
       ELSE IF l \notin Leads
       THEN /\ last' = [Trace("by_id", dry_run, "None", StartState(NoLead))
                            EXCEPT !.asked = l, !.lookup = "absent"]
            /\ crm' = crm
       ELSE \E env \in Envs(variant, Snapshot(l), dry_run), save \in SaveOutcomes(variant) :
               LET st == analyze_single_lead(variant, Snapshot(l), dry_run, env) IN
               /\ last' = [ IF save = "ok"
                            THEN AnalysisTrace("by_id", variant, Snapshot(l), dry_run, env)
                            ELSE Trace("by_id", dry_run, "error_result",
                                       [st EXCEPT !.result =
                                           ErrorResult([NoLead EXCEPT !.id = l], "DBError")])
                            EXCEPT !.asked = l, !.lookup = "found" ]
               /\ crm' = ApplyUpdates(crm, st.updates, env)
    /\ UNCHANGED <<variant, last_analysis_time, now, batch>>
    /\ UNCHANGED sideVars

(* the caller of an operation reports the returned value and drops it:      *)
(* run_single_analysis, run_all_junk_analysis                               *)
Return ==
    /\ batch.mode = "idle"
    /\ ~Ready
    /\ batch' = IdleBatch("none", FALSE, <<>>)
    /\ last' = Trace("none", FALSE, "none", StartState(NoLead))
    /\ UNCHANGED <<variant, crm, last_analysis_time, now>>
    /\ UNCHANGED sideVars

Next ==
    \/ \E dry_run \in BOOLEAN, query \in {"ok", "raise"} : StartNewLeads(dry_run, query)
    \/ \E dry_run \in BOOLEAN, query \in {"ok", "raise"} : StartAllJunk(dry_run, query)
    \/ \E dry_run \in BOOLEAN, query \in {"ok", "raise"} : RunAllJunkAnalysis(dry_run, query)
    \/ BatchStep
    \/ InterruptBatch
    \/ FinishBatch
    \/ \E l \in RequestedIds, dry_run \in BOOLEAN, get \in {"ok", "raise"} :
          AnalyzeById(l, dry_run, get)
    \/ Return

Spec == Init /\ [][Next]_vars

----------------------------------------------------------------------------
(* app/schedulers/daily_scheduler.py: DailyScheduler.  Time is counted in    *)
(* minutes; a loop thread is at the top of its while loop, inside            *)
(* _run_analysis, in one of its two waits, or ended.                         *)

check_interval_hours == 24

notSched == <<variant, crm, last_analysis_time, now, batch, last, cache, extcall, parsed, hooks, unseen>>

(* _calculate_next_run_time *)
calculate_next_run_time(s) ==
    IF s.last_run_time # -1
    THEN s.last_run_time + check_interval_hours * 60
    ELSE s.clock + 1

LoopAlive(s, i) == s.loops[i] \notin {"unborn", "ended"}

(* start() *)
SchedStart ==
    /\ sched.stopper = "idle"
    /\ IF sched.running
       THEN UNCHANGED sched
       ELSE \E i \in LoopIds :
               /\ sched.loops[i] = "unborn"
               /\ \A j \in LoopIds : j < i => sched.loops[j] # "unborn"
               /\ sched' = [sched EXCEPT !.running = TRUE,
                                         !.stop_event = FALSE,
                                         !.next_run_time = calculate_next_run_time(sched),
                                         !.thread = i,
                                         !.loops[i] = "top"]
    /\ UNCHANGED notSched

(* stop(timeout) up to self._thread.join(timeout) *)
SchedStopBegin ==
    /\ sched.stopper = "idle"
    /\ IF ~sched.running
       THEN UNCHANGED sched
       ELSE IF sched.thread # 0 /\ LoopAlive(sched, sched.thread)
       THEN sched' = [sched EXCEPT !.running = FALSE, !.stop_event = TRUE,
                                   !.stopper = "joining", !.stop_outcome = "none"]
       ELSE sched' = [sched EXCEPT !.running = FALSE, !.stop_event = TRUE,
                                   !.stop_outcome = "clean",
                                   !.stop_returns = "None"]
    /\ UNCHANGED notSched

(* join returns: the thread has ended, or the timeout has elapsed while it   *)
(* is still alive; stop() logs a warning and returns None either way         *)
SchedStopEnd ==
    /\ sched.stopper = "joining"
    /\ sched' = [sched EXCEPT
                    !.stopper = "idle",
                    !.stop_outcome = IF LoopAlive(sched, sched.thread)
                                     THEN "timeout" ELSE "clean",
                    !.stop_returns = "None"]
    /\ UNCHANGED notSched

(* _scheduler_loop: the while condition and the due test; a run that is due *)
(* enters _run_analysis, whose analyze_new_leads queries the leads to        *)
(* analyse (left)                                                            *)
LoopTop(i) ==
    /\ sched.loops[i] = "top"
    /\ IF sched.running /\ ~sched.stop_event
       THEN IF sched.clock >= sched.next_run_time
            THEN \E n \in 0..MaxBatchLeads :
                    sched' = [sched EXCEPT !.loops[i] = "batch",
                                           !.last_run_time = sched.clock,
                                           !.left[i] = n,
                                           !.late[i] = FALSE]
            ELSE sched' = [sched EXCEPT !.loops[i] = "wait60"]
       ELSE sched' = [sched EXCEPT !.loops[i] = "ended"]
    /\ UNCHANGED notSched

(* one iteration of "for lead in leads" of the batch the loop thread runs:  *)
(* the loop tests neither _running nor _stop_event; late records that a lead *)
(* was begun while the stop event was set                                    *)
LoopBatchLead(i) ==
    /\ sched.loops[i] = "batch"
    /\ sched.left[i] > 0
    /\ sched' = [sched EXCEPT !.left[i] = sched.left[i] - 1,
                              !.late[i] = sched.late[i] \/ sched.stop_event]
    /\ UNCHANGED notSched

(* a loop whose except clause also computed the next run time *)
LoopBatchDoneConsumesRun(i, outcome) ==
    /\ sched.loops[i] = "batch"
    /\ IF outcome = "ok"
       THEN /\ sched.left[i] = 0
            /\ sched' = [sched EXCEPT !.loops[i] = "wait60",
                                      !.next_run_time = calculate_next_run_time(sched)]
       ELSE sched' = [sched EXCEPT !.loops[i] = "wait300", !.left[i] = 0,
                                   !.next_run_time = calculate_next_run_time(sched)]
    /\ UNCHANGED notSched

(* _run_analysis returns after the last lead, or raises SchedulerError       *)
(* inside the loop                                                           *)
LoopBatchDone(i, outcome) ==
    /\ sched.loops[i] = "batch"
    /\ IF outcome = "ok"
       THEN /\ sched.left[i] = 0
            /\ sched' = [sched EXCEPT !.loops[i] = "wait60",
                                      !.next_run_time = calculate_next_run_time(sched)]
       ELSE sched' = [sched EXCEPT !.loops[i] = "wait300", !.left[i] = 0]
    /\ UNCHANGED notSched

(* _stop_event.wait(60) / wait(300) returns *)
LoopWake(i) ==
    /\ sched.loops[i] \in {"wait60", "wait300"}
    /\ sched' = [sched EXCEPT !.loops[i] = IF sched.stop_event THEN "ended" ELSE "top"]
    /\ UNCHANGED notSched

(* force_run() up to the call of analyze_new_leads *)
ForceRun(c) ==
    /\ sched.callers[c] = "idle"
    /\ IF ~sched.running
       THEN UNCHANGED sched
       ELSE sched' = [sched EXCEPT !.callers[c] = "batch",
                                   !.last_run_time = sched.clock]
    /\ UNCHANGED notSched

(* force_run(): _run_analysis returns or raises *)
ForceDone(c, outcome) ==
    /\ sched.callers[c] = "batch"
    /\ IF outcome = "ok"
       THEN sched' = [sched EXCEPT !.callers[c] = "idle",
                                   !.next_run_time = calculate_next_run_time(sched)]
       ELSE sched' = [sched EXCEPT !.callers[c] = "idle"]
    /\ UNCHANGED notSched

(* time passes until the next run is due *)
SchedTick ==
    /\ sched.clock < sched.next_run_time
    /\ sched.next_run_time <= MaxClock
    /\ sched' = [sched EXCEPT !.clock = sched.next_run_time]
    /\ UNCHANGED notSched

(* the batches of this scheduler that are executing *)
BatchesExecuting ==
    Cardinality({i \in LoopIds : sched.loops[i] = "batch"})
    + Cardinality({c \in CallerIds : sched.callers[c] = "batch"})

SchedInit ==
    /\ variant = "base"
    /\ AnalyzerIdle
    /\ SideIdle

SchedNext ==
    \/ SchedStart
    \/ SchedStopBegin
    \/ SchedStopEnd
    \/ \E i \in LoopIds : LoopTop(i)
    \/ \E i \in LoopIds : LoopBatchLead(i)
    \/ \E i \in LoopIds, outcome \in {"ok", "raise"} : LoopBatchDone(i, outcome)
    \/ \E i \in LoopIds : LoopWake(i)
    \/ \E c \in CallerIds : ForceRun(c)
    \/ \E c \in CallerIds, outcome \in {"ok", "raise"} : ForceDone(c, outcome)
    \/ SchedTick

SchedSpec == SchedInit /\ [][SchedNext]_vars

(* a loop thread that can take a step takes it: the while test is reached,  *)
(* the batch goes on to its next lead and returns, a wait times out          *)
SchedFairSpec ==
    /\ SchedSpec
    /\ \A i \in LoopIds :
          /\ WF_vars(LoopTop(i))
          /\ WF_vars(LoopBatchLead(i))
          /\ WF_vars(LoopBatchDone(i, "ok"))
          /\ WF_vars(LoopWake(i))

----------------------------------------------------------------------------
(* enhanced_analyzer_with_db.py: CachedTranscriptionService.  A resolver is a  *)
(* thread inside transcribe_url: after a cache miss, with the data to save,  *)
(* in the except clause, or back at its caller with a value or an exception. *)

notCache == <<variant, crm, last_analysis_time, now, batch, last, sched, extcall, parsed, hooks, unseen>>

(* analyze_audio_with_cache returns data to transcribe_url, which returns    *)
(* the TranscriptionResult built from it; first keeps the value of the       *)
(* earliest call for the reference that returned                             *)
ResolverReturns(c, p, data) ==
    LET u == c.resolvers[p].url IN
    [c EXCEPT !.resolvers[p].pc = "returned",
              !.resolvers[p].data = data,
              !.first[u] = IF c.first[u] = <<>>
                           THEN <<[data |-> data,
                                   downloads |-> c.resolvers[p].downloads,
                                   posts |-> c.resolvers[p].posts]>>
                           ELSE c.first[u]]

(* transcribe_url(lead_id, audio_url) up to the cache lookup *)
CacheLookup(p, u) ==
    /\ cache.resolvers[p].pc = "idle"
    /\ cache.started < MaxResolves
    /\ LET c == [cache EXCEPT !.started = cache.started + 1,
                              !.resolvers[p].url = u,
                              !.resolvers[p].after_first = cache.first[u] # <<>>]
           cached == get_cached_transcription(cache.rows, u)
       IN  cache' = IF cached # {}
                    THEN ResolverReturns(c, p, FromCache(CHOOSE row \in cached : TRUE))
                    ELSE [c EXCEPT !.resolvers[p].pc = "miss"]
    /\ UNCHANGED notCache

(* the try block up to cache_data: requests.get of the recording, then the   *)
(* POST to the transcription service; either can raise, and the service can  *)
(* answer without any part                                                   *)
CacheFetch(p, outcome) ==
    /\ cache.resolvers[p].pc = "miss"
    /\ LET r == cache.resolvers[p]
           got == [r EXCEPT !.downloads = r.downloads + 1]
           posted == [got EXCEPT !.posts = r.posts + 1]
       IN  cache' = [cache EXCEPT !.resolvers[p] =
              CASE outcome = "download_error" ->
                     [got EXCEPT !.pc = "except", !.error = <<"DownloadError">>]
                [] outcome = "api_error" ->
                     [posted EXCEPT !.pc = "except", !.error = <<"TranscriptionAPIError">>]
                [] outcome = "empty" ->
                     [posted EXCEPT !.pc = "save", !.data = NoData]
                [] OTHER ->
                     [posted EXCEPT !.pc = "save",
                                    !.data = [NoData EXCEPT !.transcription = <<TextOf(r.url)>>,
                                                            !.is_successful = TRUE]]]
    /\ UNCHANGED notCache

(* _save_transcription_to_cache(cache_data) inside the try block, then       *)
(* "return cache_data"                                                       *)
CacheSave(p) ==
    /\ cache.resolvers[p].pc = "save"
    /\ LET r == cache.resolvers[p] IN
       cache' = IF CommitRaises(cache.rows, r.url)
                THEN [cache EXCEPT !.resolvers[p].pc = "except",
                                   !.resolvers[p].error = <<"IntegrityError">>]
                ELSE ResolverReturns([cache EXCEPT !.rows = cache.rows \cup {CacheRow(r.url, r.data)}],
                                     p, r.data)
    /\ UNCHANGED notCache

(* the except clause: error_data is saved and returned; an exception of the  *)
(* save leaves analyze_audio_with_cache and transcribe_url                   *)
CacheExcept(p) ==
    /\ cache.resolvers[p].pc = "except"
    /\ LET r == cache.resolvers[p]
           error_data == [NoData EXCEPT !.error = r.error]
       IN  cache' = IF CommitRaises(cache.rows, r.url)
                    THEN [cache EXCEPT !.resolvers[p].pc = "raised",
                                       !.resolvers[p].error = <<"IntegrityError">>]
                    ELSE ResolverReturns([cache EXCEPT !.rows = cache.rows \cup {CacheRow(r.url, error_data)}],
                                         p, error_data)
    /\ UNCHANGED notCache

(* the caller of transcribe_url takes the value or the exception *)
CacheDone(p) ==
    /\ cache.resolvers[p].pc \in {"returned", "raised"}
    /\ cache' = [cache EXCEPT !.resolvers[p] = ResolverIdle]
    /\ UNCHANGED notCache

(* _save_analysis_to_db and the scheduler-state commit of analyze_new_leads:  *)
(* a record of the table is written with the current date                    *)
LedgerTables == {"analysis_history", "scheduler_state"}
LedgerWrite(table) ==
    /\ cache' = [cache EXCEPT !.ledger = @ \cup {[table |-> table, old |-> FALSE]}]
    /\ UNCHANGED notCache

(* time passes: every record and every cache row there is becomes older      *)
(* than the retention period                                                 *)
RetentionPeriodPasses ==
    /\ cache.rows # {} \/ cache.ledger # {}
    /\ cache' = [cache EXCEPT
                    !.ledger = {[r EXCEPT !.old = TRUE] : r \in @},
                    !.stale = {row.audio_hash : row \in cache.rows}]
    /\ UNCHANGED notCache

(* cleanup_old_data: the analysis-history and scheduler-state records older  *)
(* than the cutoff are deleted; the transcriptions table is not touched      *)
cleanup_old_data_and_transcriptions(c) ==
    [c EXCEPT !.ledger = {r \in @ : ~r.old},
              !.rows = {row \in @ : row.audio_hash \notin c.stale},
              !.cleaned = TRUE]

cleanup_old_data(c) ==
    [c EXCEPT !.ledger = {r \in @ : ~r.old},
              !.cleaned = TRUE]

CacheCleanup ==
    /\ cache' = cleanup_old_data(cache)
    /\ UNCHANGED notCache

CacheInit ==
    /\ variant = "db"
    /\ AnalyzerIdle
    /\ SideIdle

CacheNext ==
    \/ \E p \in ResolverIds, u \in Refs : CacheLookup(p, u)
    \/ \E p \in ResolverIds, outcome \in {"ok", "empty", "download_error", "api_error"} :
          CacheFetch(p, outcome)
    \/ \E p \in ResolverIds : CacheSave(p)
    \/ \E p \in ResolverIds : CacheExcept(p)
    \/ \E p \in ResolverIds : CacheDone(p)
    \/ \E table \in LedgerTables : LedgerWrite(table)
    \/ RetentionPeriodPasses
    \/ CacheCleanup

CacheSpec == CacheInit /\ [][CacheNext]_vars

----------------------------------------------------------------------------
(* The calls of the external services and their retry loops:                 *)
(*   "crm"            BitrixService._make_request                             *)
(*   "transcription"  TranscriptionService._make_request                      *)
(*   "download"       TranscriptionService._download_audio_file               *)
(*   "ai"             GeminiService.analyze_lead_status                       *)
(*   "ai_enhanced"    EnhancedGeminiService.analyze_lead_status               *)
(*   "cached"         CachedTranscriptionService.analyze_audio_with_cache     *)
(* An attempt succeeds, fails with a requests RequestException ("transport") *)
(* or fails with another exception ("other").                                *)

max_retries == 3

notCall == <<variant, crm, last_analysis_time, now, batch, last, sched, cache, parsed, hooks, unseen>>

ExternalCalls ==
    {[client |-> "crm", endpoint |-> e] :
        e \in {"crm.lead.list", "crm.lead.get", "voximplant.statistic.get",
               "crm.activity.list", "crm.lead.update"}}
    \cup {[client |-> "transcription", endpoint |-> "transcribe"],
          [client |-> "download", endpoint |-> "recording"],
          [client |-> "ai", endpoint |-> "generate_content"],
          [client |-> "ai_enhanced", endpoint |-> "generate_content"],
          [client |-> "cached", endpoint |-> "recording"],
          [client |-> "cached", endpoint |-> "analyze"]}

(* "for attempt in range(self.config.max_retries)" where the code has the    *)
(* loop, one request where it has none                                       *)
AttemptsAllowed(client) ==
    IF client \in {"crm", "transcription", "ai", "ai_enhanced"} THEN max_retries ELSE 1

(* the except clause that sleeps and goes on to the next attempt:            *)
(* RequestException in the two _make_request, Exception in the AI services   *)
RetriesFault(client, fault) ==
    \/ client \in {"crm", "transcription"} /\ fault = "transport"
    \/ client \in {"ai", "ai_enhanced"}

(* what the caller gets when the call gives up *)
FailureOf(client) ==
    CASE client = "crm" -> "BitrixAPIError"
      [] client = "transcription" -> "TranscriptionError"
      [] client \in {"ai", "ai_enhanced"} -> "error_verdict"
      [] OTHER -> "error_transcript"

(* 2 ** attempt *)
RECURSIVE Pow2(_)
Pow2(n) == IF n = 0 THEN 1 ELSE 2 * Pow2(n - 1)

CallBegin(c) ==
    /\ extcall.pc = "idle"
    /\ extcall.made < MaxCalls
    /\ extcall' = [CallIdle EXCEPT !.pc = "attempting", !.client = c.client,
                                !.endpoint = c.endpoint, !.made = extcall.made]
    /\ UNCHANGED notCall

(* one pass of the loop body *)
CallAttempt(outcome) ==
    /\ extcall.pc = "attempting"
    /\ LET logged == [extcall EXCEPT !.log = Append(extcall.log, outcome)] IN
       extcall' =
          IF outcome = "ok"
          THEN [logged EXCEPT !.pc = "done", !.result = "value"]
          ELSE IF RetriesFault(extcall.client, outcome)
                  /\ extcall.attempt # AttemptsAllowed(extcall.client) - 1
               THEN [logged EXCEPT !.sleeps = Append(extcall.sleeps, Pow2(extcall.attempt)),
                                   !.attempt = extcall.attempt + 1]
               ELSE [logged EXCEPT !.pc = "done", !.result = FailureOf(extcall.client)]
    /\ UNCHANGED notCall

(* the caller takes the value or the error *)
CallReturn ==
    /\ extcall.pc = "done"
    /\ extcall' = [CallIdle EXCEPT !.made = extcall.made + 1]
    /\ UNCHANGED notCall

CallInit ==
    /\ variant = "db"
    /\ AnalyzerIdle
    /\ SideIdle

CallNext ==
    \/ \E c \in ExternalCalls : CallBegin(c)
    \/ \E outcome \in {"ok", "transport", "other"} : CallAttempt(outcome)
    \/ CallReturn

CallSpec == CallInit /\ [][CallNext]_vars

----------------------------------------------------------------------------
(* The response parsers: GeminiService._parse_suitability_response and       *)
(* EnhancedGeminiService._parse_enhanced_response.  A response text is a     *)
(* sequence of stripped, non-empty, lower-case lines; a line is the prefix   *)
(* it starts with (head) followed by words.  "x in text" of the code is      *)
(* containment of the word x.                                                *)

notParse == <<variant, crm, last_analysis_time, now, batch, last, sched, cache, extcall, hooks, unseen>>

Line(head, words) == [head |-> head, words |-> words]

ResponseLines ==
    { Line("decision:", <<"true">>), Line("decision:", <<"false">>),
      Line("decision:", <<"true", "false">>), Line("decision:", <<"unclear">>),
      Line("alternative_status:", <<"229">>), Line("alternative_status:", <<"227">>),
      Line("alternative_status:", <<"none">>),
      Line("reasons:", <<>>), Line("-", <<"reason">>), Line("explanation:", <<>>),
      Line("", <<"true">>), Line("", <<"false">>),
      Line("", <<"is", "true">>), Line("", <<"is", "false">>),
      Line("", <<"unclear">>), Line("", <<"yes">>) }

RECURSIVE Responses(_)
Responses(n) ==
    IF n = 0 THEN {<<>>}
    ELSE Responses(n - 1)
         \cup {Append(r, l) : r \in {q \in Responses(n - 1) : Len(q) = n - 1}, l \in ResponseLines}

(* the response texts of at most MaxLines lines *)
ResponseTexts == Responses(MaxLines) \ {<<>>}

(* 'w' in text, for one line and for the whole response *)
InLine(w, line) == \E k \in 1..Len(line.words) : line.words[k] = w
InText(w, lines) == \E k \in 1..Len(lines) : InLine(w, lines[k])

(* re.findall(r'\b(227|229|783|807)\b', status_part): the first code found *)
FirstCode(words) ==
    LET hits == {k \in 1..Len(words) : words[k] \in {"227", "229", "783", "807"}} IN
    IF hits = {} THEN NoJunk
    ELSE LET k == CHOOSE i \in hits : \A j \in hits : i <= j IN
         CASE words[k] = "227" -> 227
           [] words[k] = "229" -> 229
           [] words[k] = "783" -> 783
           [] OTHER -> 807

(* the variables of _parse_enhanced_response before its loop; None is "None" *)
(* for the decision and for the section, NoJunk for the alternative          *)
ParseStart ==
    [ is_suitable |-> "None", alternative_status |-> NoJunk,
      decision_reasons |-> <<>>, explanation |-> <<>>, current_section |-> "None" ]

(* one pass of "for line in lines" *)
ParseLine(st, line) ==
    IF line.head \in {"qaror:", "decision:"}
    THEN [st EXCEPT !.is_suitable =
                        IF InLine("true", line) /\ ~InLine("false", line) THEN "True"
                        ELSE IF InLine("false", line) /\ ~InLine("true", line) THEN "False"
                        ELSE @,
                    !.current_section = "decision"]
    ELSE IF line.head \in {"alternative_status:", "alternative:"}
    THEN [st EXCEPT !.alternative_status =
                        IF FirstCode(line.words) # NoJunk THEN FirstCode(line.words) ELSE @,
                    !.current_section = "alternative"]
    ELSE IF line.head \in {"sabablari:", "reasons:"}
    THEN [st EXCEPT !.current_section = "reasons"]
    ELSE IF line.head \in {"tushuntirish:", "explanation:"}
    THEN [st EXCEPT !.current_section = "explanation"]
    ELSE IF st.current_section = "reasons"
    THEN IF line.head = "-" /\ line.words # <<>>
         THEN [st EXCEPT !.decision_reasons = Append(@, line.words)]
         ELSE st
    ELSE IF st.current_section = "explanation"
    THEN [st EXCEPT !.explanation = @ \o line.words]
    ELSE IF line = Line("", <<"true">>) THEN [st EXCEPT !.is_suitable = "True"]
    ELSE IF line = Line("", <<"false">>) THEN [st EXCEPT !.is_suitable = "False"]
    ELSE st

RECURSIVE ParseLines(_, _)
ParseLines(st, lines) ==
    IF lines = <<>> THEN st ELSE ParseLines(ParseLine(st, Head(lines)), Tail(lines))

(* "if is_suitable is None": the scan of the whole text *)
SimpleParse(lines) ==
    IF InText("true", lines) /\ ~InText("false", lines) THEN TRUE
    ELSE IF InText("false", lines) /\ ~InText("true", lines) THEN FALSE
    ELSE FALSE

(* which detailed_reasoning text is built; None is the empty sequence *)
DetailedReasoning(is_suitable, st) ==
    IF ~is_suitable /\ st.decision_reasons # <<>>
    THEN <<"not_suitable_reasons">> \o st.decision_reasons
    ELSE IF is_suitable /\ st.alternative_status # NoJunk /\ st.decision_reasons # <<>>
    THEN <<"alternative_reasons">> \o st.decision_reasons
    ELSE IF is_suitable /\ st.decision_reasons # <<>>
    THEN <<"suitable_reasons">> \o st.decision_reasons
    ELSE IF ~is_suitable /\ st.decision_reasons = <<>>
    THEN <<"no_reason_given">>
    ELSE <<>>

(* _parse_enhanced_response followed by the construction of the verdict in   *)
(* EnhancedGeminiService.analyze_lead_status                                 *)
parse_enhanced_response(lines) ==
    LET st == ParseLines(ParseStart, lines)
        is_suitable == IF st.is_suitable = "None" THEN SimpleParse(lines)
                       ELSE st.is_suitable = "True"
    IN  [ is_suitable |-> is_suitable,
          reasoning |-> DetailedReasoning(is_suitable, st),
          alternative_status |-> st.alternative_status,
          error |-> <<>> ]

(* len(): the characters of a word, of a line head, of a line (head and      *)
(* words separated by one blank) and of a text (lines separated by one       *)
(* newline)                                                                  *)
WordChars(w) ==
    CASE w \in {"is"} -> 2
      [] w \in {"yes", "229", "227"} -> 3
      [] w \in {"true", "none"} -> 4
      [] w \in {"false"} -> 5
      [] w \in {"reason"} -> 6
      [] OTHER -> 7

HeadChars(h) ==
    CASE h = "" -> 0
      [] h = "-" -> 1
      [] h = "reasons:" -> 8
      [] h = "decision:" -> 9
      [] h = "explanation:" -> 12
      [] OTHER -> 19

RECURSIVE WordsChars(_)
WordsChars(words) ==
    IF words = <<>> THEN 0
    ELSE WordChars(Head(words)) + (IF Len(words) > 1 THEN 1 ELSE 0) + WordsChars(Tail(words))

LineChars(line) ==
    HeadChars(line.head) + WordsChars(line.words)
    + (IF line.head # "" /\ line.words # <<>> THEN 1 ELSE 0)

RECURSIVE TextChars(_)
TextChars(lines) ==
    IF lines = <<>> THEN 0
    ELSE LineChars(Head(lines)) + (IF Len(lines) > 1 THEN 1 ELSE 0) + TextChars(Tail(lines))

(* the lines _extract_reasoning keeps: every line but a bare true or false   *)
RECURSIVE ReasoningLines(_)
ReasoningLines(lines) ==
    IF lines = <<>> THEN <<>>
    ELSE (IF Head(lines) \in {Line("", <<"true">>), Line("", <<"false">>)}
          THEN <<>> ELSE <<Head(lines)>>)
         \o ReasoningLines(Tail(lines))

(* GeminiService._extract_reasoning; None is the empty sequence *)
ShortResponse == 10
extract_reasoning(full_response) ==
    IF TextChars(full_response) <= ShortResponse THEN <<>>
    ELSE ReasoningLines(full_response)

(* _parse_suitability_response followed by the construction of the verdict   *)
(* in GeminiService.analyze_lead_status; the base verdict has no alternative *)
parse_suitability_response(lines) ==
    [ is_suitable |->
          IF InText("true", lines) /\ ~InText("false", lines) THEN TRUE
          ELSE IF InText("false", lines) /\ ~InText("true", lines) THEN FALSE
          ELSE IF lines = <<Line("", <<"yes">>)>> THEN TRUE
          ELSE FALSE,
      reasoning |-> extract_reasoning(lines),
      alternative_status |-> NoJunk,
      error |-> <<>> ]

(* the transcription texts and reason codes analyze_lead_status is called    *)
(* with: an empty text, a text of white space, a transcript; None, the       *)
(* count-based code, an AI-based code, a code outside the recognized set     *)
ClassifyTexts == {<<>>, <<Sep>>, <<TextOf(1)>>}
ClassifyStatuses == {NoJunk, 158, 229, 999}

(* the two tests at the top of analyze_lead_status: the error of the verdict *)
(* returned before any prompt is built, or the empty sequence                *)
FailFastNever(service, transcription, current_junk_status) == <<>>
FailFastError(service, transcription, current_junk_status) ==
    IF IsBlank(transcription) THEN <<"Empty transcription provided">>
    ELSE IF current_junk_status \notin
               (IF service = "base" THEN junk_statuses ELSE ai_valid_statuses)
    THEN <<"Unknown junk status">>
    ELSE <<>>

(* analyze_lead_status(transcription, current_junk_status, status_name) up   *)
(* to the request to the AI API                                              *)
ClassifyBegin(service, transcription, current_junk_status) ==
    /\ parsed.pc = "idle"
    /\ LET called == [parsed EXCEPT !.parser = service,
                                    !.transcription = transcription,
                                    !.current_junk_status = current_junk_status]
           error == FailFastError(service, transcription, current_junk_status)
       IN  parsed' = IF error # <<>>
                     THEN [called EXCEPT !.pc = "verdict",
                                         !.verdict = <<[is_suitable |-> FALSE, reasoning |-> <<>>,
                                                        alternative_status |-> NoJunk,
                                                        error |-> error]>>]
                     ELSE [called EXCEPT !.pc = "calling"]
    /\ UNCHANGED notParse

(* self.model.generate_content(prompt) returns a response with a text *)
ResponseArrives(r) ==
    /\ parsed.pc = "calling"
    /\ parsed' = [parsed EXCEPT !.pc = "response", !.response = r,
                                !.api_calls = parsed.api_calls + 1]
    /\ UNCHANGED notParse

(* "if not response or not response.text" *)
NoResponse ==
    /\ parsed.pc = "calling"
    /\ parsed' = [parsed EXCEPT !.pc = "verdict",
                                !.api_calls = parsed.api_calls + 1,
                                !.verdict = <<[is_suitable |-> FALSE, reasoning |-> <<>>,
                                               alternative_status |-> NoJunk,
                                               error |-> <<"No response from Gemini AI">>]>>]
    /\ UNCHANGED notParse

ParseBase ==
    /\ parsed.pc = "response"
    /\ parsed.parser = "base"
    /\ parsed' = [parsed EXCEPT !.pc = "verdict", !.parser = "base",
                                !.verdict = <<parse_suitability_response(parsed.response)>>]
    /\ UNCHANGED notParse

ParseEnhanced ==
    /\ parsed.pc = "response"
    /\ parsed.parser = "enhanced"
    /\ parsed' = [parsed EXCEPT !.pc = "verdict", !.parser = "enhanced",
                                !.verdict = <<parse_enhanced_response(parsed.response)>>]
    /\ UNCHANGED notParse

ParseInit ==
    /\ variant = "enhanced"
    /\ AnalyzerIdle
    /\ SideIdle

ParseNext ==
    \/ \E service \in {"base", "enhanced"}, t \in ClassifyTexts, c \in ClassifyStatuses :
          ClassifyBegin(service, t, c)
    \/ parsed.pc = "calling" /\ \E r \in ResponseTexts : ResponseArrives(r)
    \/ NoResponse
    \/ ParseBase
    \/ ParseEnhanced

ParseSpec == ParseInit /\ [][ParseNext]_vars

----------------------------------------------------------------------------
(* api_server.py: the HTTP server holds one LeadAnalyzerService.  The CRM    *)
(* posts an event to /webhook/lead-updated when a lead is added or changed,  *)
(* a write of the analyzer included; the handler queues process_lead_webhook *)
(* as a background task.                                                     *)

WebhookEvents == {"ONADD", "ONUPDATE", "ONDELETE"}

(* a lead read once and analysed again from that copy *)
get_lead_by_id_as_first_read(l) ==
    [id |-> l, status_id |-> junk_status_value, junk_status |-> InitialJunk(l)]

(* bitrix_service.get_lead_by_id: crm.lead.get reads the lead as it is now *)
get_lead_by_id(l) ==
    Snapshot(l)

(* analyze_lead_by_id(l, dry_run) of the server's analyzer: the traces it    *)
(* can leave and the CRM state after it                                      *)
analyze_lead_by_id(kind, l, dry_run, get) ==
    IF get = "raise"
    THEN {[last |-> [Trace(kind, dry_run, "error_result",
                           [StartState([NoLead EXCEPT !.id = l]) EXCEPT
                               !.result = set_error(@, <<"BitrixAPIError">>)])
                        EXCEPT !.asked = l, !.lookup = "raise"],
           crm |-> crm]}
    ELSE LET lead == get_lead_by_id(l) IN
         {[last |-> [AnalysisTrace(kind, variant, lead, dry_run, env)
                        EXCEPT !.asked = l, !.lookup = "found"],
           crm |-> ApplyUpdates(crm,
                       analyze_single_lead(variant, lead, dry_run, env).updates, env)] :
             env \in Envs(variant, lead, dry_run)}

(* the CRM sends ONUPDATE for a lead an analysis has written to *)
Emitted(l, before, after) ==
    IF before[l] # after[l] THEN 1 ELSE 0

(* webhook_lead_updated: ONADD and ONUPDATE queue the task *)
WebhookLeadUpdated(l, event) ==
    /\ hooks[l] < MaxHooks
    /\ hooks' = IF event \in {"ONADD", "ONUPDATE"}
                THEN [hooks EXCEPT ![l] = @ + 1] ELSE hooks
    /\ UNCHANGED <<variant, crm, last_analysis_time, now, batch, last>>
    /\ UNCHANGED <<sched, cache, extcall, parsed, unseen>>

(* process_lead_webhook: analyze_lead_by_id(lead_id, dry_run=False) *)
ProcessLeadWebhook(l, get) ==
    /\ Ready
    /\ hooks[l] > 0
    /\ \E o \in analyze_lead_by_id("webhook", l, FALSE, get) :
          /\ last' = o.last
          /\ crm' = o.crm
          /\ hooks' = [hooks EXCEPT ![l] = @ - 1 + Emitted(l, crm, o.crm)]
    /\ UNCHANGED <<variant, last_analysis_time, now, batch>>
    /\ UNCHANGED <<sched, cache, extcall, parsed, unseen>>

(* POST /analyze/lead/{lead_id} *)
AnalyzeLeadEndpoint(l, dry_run, get) ==
    /\ Ready
    /\ \E o \in analyze_lead_by_id("by_id", l, dry_run, get) :
          /\ last' = o.last
          /\ crm' = o.crm
          /\ hooks' = [hooks EXCEPT ![l] = Min(MaxHooks, @ + Emitted(l, crm, o.crm))]
    /\ UNCHANGED <<variant, last_analysis_time, now, batch>>
    /\ UNCHANGED <<sched, cache, extcall, parsed, unseen>>

(* POST /analyze/all-junk, one lead of the batch: the CRM posts its events   *)
(* while the handler runs                                                    *)
AllJunkEndpointStep ==
    /\ AnalyzeNextLead
    /\ hooks' = [l \in Leads |-> Min(MaxHooks, hooks[l] + Emitted(l, crm, crm'))]
    /\ UNCHANGED <<sched, cache, extcall, parsed, unseen>>

(* the server in front of a CRM in which a user has moved lead 2 out of the  *)
(* junk status or not; Bitrix24 keeps the value of the junk-reason field     *)
WebhookInit ==
    /\ variant = "base"
    /\ \E status \in {junk_status_value, active_status_value} :
          crm = [l \in Leads |->
                    [status_id |-> IF l = 2 THEN status ELSE junk_status_value,
                     junk_status |-> InitialJunk(l)]]
    /\ now = 1
    /\ last_analysis_time = 0
    /\ batch = IdleBatch("none", FALSE, <<>>)
    /\ last = Trace("none", FALSE, "none", StartState(NoLead))
    /\ SideIdle

WebhookNext ==
    \/ \E l \in Leads, event \in WebhookEvents : WebhookLeadUpdated(l, event)
    \/ \E l \in Leads, get \in {"ok", "raise"} : ProcessLeadWebhook(l, get)
    \/ \E l \in Leads, dry_run \in BOOLEAN, get \in {"ok", "raise"} :
          AnalyzeLeadEndpoint(l, dry_run, get)
    \/ \E dry_run \in BOOLEAN, query \in {"ok", "raise"} : StartAllJunk(dry_run, query)
    \/ AllJunkEndpointStep
    \/ FinishBatch
    \/ Return

WebhookSpec == WebhookInit /\ [][WebhookNext]_vars

----------------------------------------------------------------------------
(* Leads turning junk while the analyzer runs its new-leads batches.  A CRM  *)
(* user marks an active lead junk and picks the reason; DATE_CREATE of the   *)
(* lead stays what it was.                                                   *)

LeadMarkedJunk(l) ==
    /\ crm[l].status_id = active_status_value
    /\ crm' = [crm EXCEPT ![l] = [status_id |-> junk_status_value,
                                  junk_status |-> InitialJunk(l)]]
    /\ unseen' = IF InitialJunk(l) \in junk_statuses THEN unseen \cup {l} ELSE unseen
    /\ UNCHANGED <<variant, last_analysis_time, now, batch, last>>
    /\ UNCHANGED <<sched, cache, extcall, parsed, hooks>>

(* the external services while leads come in: every call is answered, and   *)
(* a lead has no call on record or SufficientCallsThreshold unanswered ones   *)
AnsweringEnvs(v, lead, dry_run) ==
    {env \in Envs(v, lead, dry_run) :
        /\ env.fetch = "ok"
        /\ env.update = "true"
        /\ env.call_data \in {CallData(0, <<>>), CallData(SufficientCallsThreshold, <<>>)}}

(* one lead of the batch goes through _analyze_single_lead *)
IntakeBatchStep ==
    /\ AnalyzeNextLeadIn(AnsweringEnvs(variant, Head(batch.queue), batch.dry_run))
    /\ unseen' = IF batch.mode = "new_leads" THEN unseen \ {Head(batch.queue).id} ELSE unseen
    /\ UNCHANGED <<sched, cache, extcall, parsed, hooks>>

IntakeInit ==
    /\ variant \in Variants
    /\ crm = [l \in Leads |-> [status_id |-> active_status_value, junk_status |-> NoJunk]]
    /\ now = 1
    /\ last_analysis_time = 0
    /\ batch = IdleBatch("none", FALSE, <<>>)
    /\ last = Trace("none", FALSE, "none", StartState(NoLead))
    /\ SideIdle

IntakeNext ==
    \/ \E l \in Leads : LeadMarkedJunk(l)
    \/ \E dry_run \in BOOLEAN, query \in {"ok", "raise"} : StartNewLeads(dry_run, query)
    \/ IntakeBatchStep
    \/ FinishBatch
    \/ Return

IntakeSpec == IntakeInit /\ [][IntakeNext]_vars

(* the scheduler loop keeps triggering batches, a batch that has gone        *)
(* through its leads stamps the watermark and returns, and the scheduler     *)
(* takes the result                                                          *)
IntakeFairSpec ==
    /\ IntakeSpec
    /\ WF_vars(\E dry_run \in BOOLEAN : StartNewLeads(dry_run, "ok"))
    /\ WF_vars(FinishBatch)
    /\ WF_vars(Return)

----------------------------------------------------------------------------
(* Properties.  last is the trace of the most recent single-lead analysis:   *)
(* the result it built and the calls it made to the external services.      *)

(* C1: lead-update is called only for a result whose computed action is      *)
(* ChangeStatus and only when dry_run is false; with dry_run true an         *)
(* analyse-one, new-leads or all-junk run makes no update call at all.       *)
C1_UpdateOnlyForChangeStatusNotDryRun ==
    /\ \A i \in 1..Len(last.updates) :
          /\ last.updates[i].action_at_call = "change_status"
          /\ ~last.dry_run
    /\ last.dry_run => last.updates = <<>>

C1_Witness_DryRunChange ==
    /\ last.kind = "all_junk"
    /\ last.dry_run
    /\ last.returned = "result"
    /\ last.result.action = "change_status"
    /\ last.updates = <<>>

(* C2: a lead whose junk-reason code is missing or outside                   *)
(* {158, 227, 229, 783, 807} gets Skip / NotTargetStatus, and no evidence    *)
(* fetch, no transcription, no classifier call and no update call is made.   *)
C2_NotTargetIsSkippedUntouched ==
    (/\ last.returned = "result"
     /\ last.result.original_junk_status \notin {158, 227, 229, 783, 807})
    => /\ last.result.action = "skip"
       /\ last.result.reason = "not_target_status"
       /\ last.evidence_calls = 0
       /\ last.transcribe_calls = 0
       /\ last.ai_calls = 0
       /\ last.updates = <<>>

C2_Witness_MissingCode ==
    /\ last.returned = "result"
    /\ last.result.original_junk_status = NoJunk
    /\ last.result.action = "skip"
    /\ last.result.reason = "not_target_status"

(* C3: for the count-based reason 158 with evidence fetched, a count of 5 or *)
(* more gives KeepStatus / SufficientCalls and no update call; a count below *)
(* 5 gives ChangeStatus / InsufficientCalls with new main status active and  *)
(* new junk reason none.                                                     *)
C3_CountRule ==
    (/\ last.returned = "result"
     /\ last.result.original_junk_status = 158
     /\ last.evidence_ok)
    => /\ last.result.unsuccessful_calls_count >= 5 =>
             /\ last.result.action = "keep_status"
             /\ last.result.reason = "sufficient_calls"
             /\ last.updates = <<>>
       /\ last.result.unsuccessful_calls_count < 5 =>
             /\ last.result.action = "change_status"
             /\ last.result.reason = "insufficient_calls"
             /\ last.result.new_status = "NEW"
             /\ last.result.new_junk_status = NoJunk

(* C4: for an AI-based reason, when the evidence holds no recording          *)
(* reference the result is Skip / NoAudioFiles and no transcription, no      *)
(* classifier call and no update call is made.                               *)
C4_NoRecordingsIsSkipped ==
    (/\ last.returned = "result"
     /\ last.result.original_junk_status \in {227, 229, 783, 807}
     /\ last.evidence_ok
     /\ last.audio_files = <<>>)
    => /\ last.result.action = "skip"
       /\ last.result.reason = "no_audio_files"
       /\ last.transcribe_calls = 0
       /\ last.ai_calls = 0
       /\ last.updates = <<>>

C4_Witness_NoRecordings ==
    /\ last.returned = "result"
    /\ last.result.original_junk_status \in {227, 229, 783, 807}
    /\ last.evidence_ok
    /\ last.evidence_calls = 1
    /\ last.audio_files = <<>>
    /\ last.result.reason = "no_audio_files"

(* C5: for an AI-based reason with at least one recording, every recording   *)
(* is transcribed in evidence order; if every attempt fails the result is    *)
(* Skip / NoTranscription with no classifier call and no update call; if at  *)
(* least one succeeds the classifier is called exactly once, on the          *)
(* successful texts in evidence order joined by a blank line.                *)
C5_TranscriptsFeedOneClassifierCall ==
    (/\ last.returned = "result"
     /\ last.result.original_junk_status \in {227, 229, 783, 807}
     /\ last.audio_files # <<>>)
    => LET trs == last.result.transcription_results
           ok == {i \in 1..Len(trs) : trs[i].transcription # <<>> /\ trs[i].error = <<>>}
           kth(k) == CHOOSE i \in ok : Cardinality({j \in ok : j <= i}) = k
           expected == [p \in 1..(2 * Cardinality(ok) - 1) |->
                           IF p % 2 = 1 THEN trs[kth((p + 1) \div 2)].transcription[1]
                           ELSE [kind |-> "sep", of |-> 0]]
       IN  /\ Len(trs) = Len(last.audio_files)
           /\ \A i \in 1..Len(trs) : trs[i].audio_file = last.audio_files[i]
           /\ last.transcribe_calls = Len(last.audio_files)
           /\ ok = {} =>
                 /\ last.result.action = "skip"
                 /\ last.result.reason = "no_transcription"
                 /\ last.ai_calls = 0
                 /\ last.updates = <<>>
           /\ ok # {} =>
                 /\ last.ai_calls = 1
                 /\ last.ai_input = expected

C5_Witness_TwoTranscriptsJoined ==
    /\ last.returned = "result"
    /\ last.ai_calls = 1
    /\ Len(last.result.transcription_results) = 2
    /\ Len(last.ai_input) = 3

(* C6: a successful verdict with decision false gives ChangeStatus /         *)
(* AINotSuitable with new main status active and new junk reason none.       *)
C6_DecisionFalseReactivates ==
    (/\ last.returned = "result"
     /\ last.result.ai_analysis # <<>>
     /\ last.result.ai_analysis[1].error = <<>>
     /\ ~last.result.ai_analysis[1].is_suitable)
    => /\ last.result.action = "change_status"
       /\ last.result.reason = "ai_not_suitable"
       /\ last.result.new_status = "NEW"
       /\ last.result.new_junk_status = NoJunk

(* C7: a successful verdict with decision true and no alternative reason     *)
(* gives KeepStatus / AISuitable and no update call, in every analyzer       *)
(* variant.                                                                  *)
C7_DecisionTrueKeeps ==
    (/\ last.returned = "result"
     /\ last.result.ai_analysis # <<>>
     /\ last.result.ai_analysis[1].error = <<>>
     /\ last.result.ai_analysis[1].is_suitable
     /\ last.result.ai_analysis[1].alternative_status = NoJunk)
    => /\ last.result.action = "keep_status"
       /\ last.result.reason = "ai_suitable"
       /\ last.updates = <<>>

(* C8: a successful verdict with decision true and an alternative reason R   *)
(* gives ChangeStatus / AINotSuitable with new main status junk and new junk *)
(* reason R, and outside a dry run the update call sets junk and R.          *)
C8_AlternativeReclassifies ==
    (/\ last.returned = "result"
     /\ last.result.ai_analysis # <<>>
     /\ last.result.ai_analysis[1].error = <<>>
     /\ last.result.ai_analysis[1].is_suitable
     /\ last.result.ai_analysis[1].alternative_status # NoJunk)
    => /\ last.result.action = "change_status"
       /\ last.result.reason = "ai_not_suitable"
       /\ last.result.new_status = "JUNK"
       /\ last.result.new_junk_status = last.result.ai_analysis[1].alternative_status
       /\ ~last.dry_run =>
             /\ Len(last.updates) = 1
             /\ last.updates[1].status = "JUNK"
             /\ last.updates[1].junk = last.result.ai_analysis[1].alternative_status

(* C9: an error verdict gives action Error carrying the classifier's error   *)
(* text; its decision value is not acted on and no update call is made.      *)
C9_ErrorVerdictIsError ==
    (/\ last.returned = "result"
     /\ last.result.ai_analysis # <<>>
     /\ last.result.ai_analysis[1].error # <<>>)
    => /\ last.result.action = "error"
       /\ \E i \in 1..Len(last.result.error_message) :
             last.result.error_message[i] = last.result.ai_analysis[1].error[1]
       /\ last.result.new_status = "None"
       /\ last.result.new_junk_status = NoJunk
       /\ last.updates = <<>>

C9_Witness_ClassifierRaised ==
    /\ last.returned = "result"
    /\ ~last.dry_run
    /\ last.ai_calls = 1
    /\ last.result.ai_analysis # <<>>
    /\ last.result.ai_analysis[1].error = <<"AIError">>
    /\ last.result.action = "error"

(* C10: when the update call of a ChangeStatus result fails (returns false   *)
(* or raises) the result carries an error text while its action stays        *)
(* ChangeStatus and its reason stays the computed one.                       *)
C10_FailedWriteKeepsDecision ==
    (/\ last.returned = "result"
     /\ last.updates # <<>>
     /\ last.updates[1].outcome # "true")
    => /\ last.result.error_message # <<>>
       /\ last.result.action = "change_status"
       /\ last.result.reason \in {"insufficient_calls", "ai_not_suitable"}

(* C11: for the same lead, evidence, transcripts and verdict, a dry-run      *)
(* analysis and a non-dry-run analysis give the same action, reason, new     *)
(* main status and new junk reason.                                          *)
C11_DryRunSameDecision ==
    last.returned = "result"
    => /\ last.twin.action = last.result.action
       /\ last.twin.reason = last.result.reason
       /\ last.twin.new_status = last.result.new_status
       /\ last.twin.new_junk_status = last.result.new_junk_status

(* C12: an exception raised while one lead of a new-leads or all-junk batch  *)
(* is processed does not abort the batch: the failing lead gets an Error     *)
(* result, the batch goes on, and the returned batch holds exactly one       *)
(* result per fetched lead, in the order fetched (total = N).                *)
C12_BatchSurvivesLeadException ==
    /\ (/\ batch.mode # "idle"
        /\ last.returned = "result"
        /\ last.evidence_calls = 1
        /\ ~last.evidence_ok)
       => /\ last.result.action = "error"
          /\ \E i \in 1..Len(batch.results) :
                /\ batch.results[i].lead_id = last.result.lead_id
                /\ batch.results[i].action = "error"
    /\ (batch.mode = "idle" /\ batch.outcome = "returned")
       => /\ Len(batch.results) = Len(batch.fetched)
          /\ \A i \in 1..Len(batch.results) :
                batch.results[i].lead_id = batch.fetched[i]

C14_SingleBatchInFlight == BatchesExecuting <= 1

C16_LosingWriterReturnsWithoutError ==
    /\ \A u \in Refs : Cardinality(get_cached_transcription(cache.rows, u)) <= 1
    /\ \A p \in ResolverIds :
          /\ cache.resolvers[p].pc # "raised"
          /\ cache.resolvers[p].error # <<"IntegrityError">>

(* C17: every external call, whichever service it goes to, makes at most     *)
(* max_retries = 3 attempts, stops at its first success, sleeps 1, 2, ...    *)
(* (2^attempt) seconds after each failed attempt but the last, gives up only *)
(* after max_retries attempts have failed with a transport error, and then   *)
(* hands its caller a typed error or an error verdict.                       *)
C17_UniformRetryPolicy ==
    /\ Len(extcall.log) <= max_retries
    /\ \A k \in 1..Len(extcall.log) : extcall.log[k] = "ok" => k = Len(extcall.log) /\ extcall.pc = "done"
    /\ \A k \in 1..Len(extcall.sleeps) : extcall.sleeps[k] = Pow2(k - 1)
    /\ extcall.pc = "done" =>
          /\ Len(extcall.sleeps) = Len(extcall.log) - 1
          /\ extcall.result = "value" <=> extcall.log[Len(extcall.log)] = "ok"
          /\ extcall.result # "value" =>
                /\ extcall.result \in {"BitrixAPIError", "TranscriptionError",
                                    "error_verdict", "error_transcript"}
                /\ (\A k \in 1..Len(extcall.log) : extcall.log[k] = "transport")
                      => Len(extcall.log) = max_retries

(* C18: a lead analysis makes at most one CRM update call, that call carries *)
(* both the main-status field and the junk-reason field (set or cleared), and *)
(* a result that ends as ChangeStatus outside a dry run was written by       *)
(* exactly one such call, after which the lead holds both new values.        *)
C18_OneUpdateCallCarriesBothFields ==
    last.kind # "none" =>
        /\ Len(last.updates) <= 1
        /\ \A k \in 1..Len(last.updates) :
              LET req == last.updates[k].request IN
              /\ DOMAIN req.fields = {"STATUS_ID", "UF_CRM_1751812306933"}
              /\ req.fields["STATUS_ID"] = last.updates[k].status
              /\ req.fields["UF_CRM_1751812306933"] = last.updates[k].junk
              /\ req.ID = last.result.lead_id
        /\ (last.returned = "result" /\ ~last.dry_run
            /\ last.result.action = "change_status") =>
              /\ Len(last.updates) = 1
              /\ last.updates[1].outcome = "true" =>
                    /\ crm[last.result.lead_id].status_id = last.result.new_status
                    /\ crm[last.result.lead_id].junk_status = last.result.new_junk_status

C18_Witness_ChangeWrittenByOneCall ==
    /\ last.returned = "result" /\ ~last.dry_run
    /\ last.result.action = "change_status"
    /\ Len(last.updates) = 1
    /\ last.updates[1].outcome = "true"
    /\ last.result.new_junk_status = NoJunk
    /\ crm[last.result.lead_id].junk_status = NoJunk

(* C19: a verdict parsed from a response whose decision is false carries no  *)
(* alternative reason, whatever ALTERNATIVE_STATUS line the response holds.  *)
C19_DecisionFalseHasNoAlternative ==
    (parsed.pc = "verdict" /\ ~parsed.verdict[1].is_suitable)
        => parsed.verdict[1].alternative_status = NoJunk

(* C20: for a response without a decision header line, the decision is false *)
(* when the text holds both tokens "true" and "false" or neither, and is the *)
(* token when it holds exactly one of them, however the tokens are spread    *)
(* over the lines.                                                           *)
C20_BareTokenFallback ==
    (/\ parsed.pc = "verdict"
     /\ \A k \in 1..Len(parsed.response) :
           parsed.response[k].head \notin {"decision:", "qaror:"})
        =>
        LET t == \E k \in 1..Len(parsed.response) : \E j \in 1..Len(parsed.response[k].words) :
                     parsed.response[k].words[j] = "true"
            f == \E k \in 1..Len(parsed.response) : \E j \in 1..Len(parsed.response[k].words) :
                     parsed.response[k].words[j] = "false"
        IN  parsed.verdict[1].is_suitable = (t /\ ~f)

(* C21: the alternative reason of a verdict, when present, is a recognized   *)
(* reason code other than the code that was evaluated, and no ChangeStatus   *)
(* result has a new junk reason equal to the lead's original junk reason.    *)
C21_AlternativeDiffersFromEvaluated ==
    last.kind # "none" =>
        /\ \A k \in 1..Len(last.result.ai_analysis) :
              LET ai == last.result.ai_analysis[k] IN
              (ai.error = <<>> /\ ai.alternative_status # NoJunk) =>
                  /\ ai.alternative_status \in junk_statuses
                  /\ ai.alternative_status # last.result.original_junk_status
        /\ last.result.action = "change_status" =>
              last.result.new_junk_status # last.result.original_junk_status

(* C22: analyze_lead_status called with an empty or whitespace-only text, or *)
(* with a reason code outside the recognized set, returns an error verdict   *)
(* and makes no AI API call.                                                 *)
C22_FailFastWithoutApiCall ==
    (/\ parsed.pc = "verdict"
     /\ \/ \A i \in 1..Len(parsed.transcription) : parsed.transcription[i] = Sep
        \/ parsed.current_junk_status \notin {158, 227, 229, 783, 807})
        => /\ parsed.verdict[1].error # <<>>
           /\ ~parsed.verdict[1].is_suitable
           /\ parsed.api_calls = 0
           /\ parsed.response = <<>>

C22_Witness_WhitespaceTextRejected ==
    /\ parsed.pc = "verdict"
    /\ parsed.transcription = <<Sep>>
    /\ parsed.current_junk_status = 229
    /\ parsed.verdict[1].error = <<"Empty transcription provided">>
    /\ parsed.api_calls = 0

(* C23: once stop() has set the stop event, the batch in flight begins no    *)
(* further lead, and stop() hands its caller whether the loop thread ended   *)
(* within the timeout ("clean") or not ("timeout").                          *)
C23_StopEndsBatchAtLeadBoundary ==
    /\ \A i \in LoopIds : ~sched.late[i]
    /\ sched.stop_outcome \in {"clean", "timeout"} =>
          sched.stop_returns = sched.stop_outcome

C25_FailedQueryAbortsBatch ==
    [][ (batch'.query = "raise" /\ batch' # batch) =>
            /\ batch'.outcome = "raised"
            /\ batch'.results = <<>>
            /\ batch'.mode = "idle"
            /\ last.kind = "none" /\ last' = last
            /\ crm' = crm
            /\ last_analysis_time' = last_analysis_time ]_vars

C25_Witness_QueryRaised ==
    /\ batch.query = "raise"
    /\ batch.outcome = "raised"
    /\ last.kind = "none"

(* C26: analyze_lead_by_id returns None when the CRM has no lead with the    *)
(* ID, after no evidence fetch and no write; when the lead exists it returns *)
(* a result carrying the given lead ID; a malformed ID or a failure of the   *)
(* lead fetch gives an Error result for the ID, never an exception.          *)
C26_ByIdNotFoundResultOrError ==
    last.kind = "by_id" =>
        /\ last.returned # "raised"
        /\ (last.asked \notin Leads /\ last.asked # MalformedId /\ last.lookup # "raise")
              => /\ last.returned = "None"
                 /\ last.evidence_calls = 0
                 /\ last.transcribe_calls = 0
                 /\ last.ai_calls = 0
                 /\ last.updates = <<>>
        /\ last.returned = "None" => last.asked \notin Leads
        /\ (last.asked \in Leads /\ last.lookup # "raise")
              => /\ last.returned \in {"result", "error_result"}
                 /\ last.result.lead_id = last.asked
        /\ (last.asked = MalformedId \/ last.lookup = "raise")
              => /\ last.returned = "error_result"
                 /\ last.result.action = "error"
                 /\ last.result.lead_id = last.asked
                 /\ last.updates = <<>>

C26_Witness_AbsentLead ==
    /\ last.kind = "by_id"
    /\ last.asked = AbsentId
    /\ last.returned = "None"

C26_Witness_MalformedId ==
    /\ last.kind = "by_id"
    /\ last.asked = MalformedId
    /\ last.result.error_message = <<"ValidationError">>

(* C27: an all-junk run selects every lead whose main status is junk and     *)
(* whose junk reason is in the recognised set, whatever its creation date    *)
(* and whatever the watermark.                                               *)
C27_AllJunkSelectsEveryRecognisedJunkLead ==
    [][ (batch.entry = "none" /\ batch'.entry = "all_junk" /\ batch'.query = "ok") =>
            { batch'.fetched[i] : i \in 1..Len(batch'.fetched) } =
            { l \in Leads : /\ crm[l].status_id = junk_status_value
                            /\ crm[l].junk_status \in junk_statuses } ]_vars

(* C28: when the call evidence of a count-rule lead (reason 158) cannot be   *)
(* fetched, the lead's result is Error and the lead is not reclassified: no  *)
(* ChangeStatus / InsufficientCalls is decided, no count is reported and no  *)
(* update call is made.                                                      *)
C28_FailedEvidenceFetchIsError ==
    (/\ last.returned = "result"
     /\ last.result.original_junk_status = CountBasedStatus
     /\ last.evidence_calls >= 1
     /\ ~last.evidence_ok)
    => /\ last.result.action = "error"
       /\ last.result.reason = "api_error"
       /\ last.result.error_message # <<>>
       /\ last.result.new_status = "None"
       /\ last.result.new_junk_status = NoJunk
       /\ last.result.unsuccessful_calls_count = 0
       /\ last.updates = <<>>
       /\ last.ai_calls = 0

C28_Witness_EvidenceFetchFailed ==
    /\ last.returned = "result"
    /\ ~last.dry_run
    /\ last.result.original_junk_status = CountBasedStatus
    /\ last.evidence_calls = 1
    /\ ~last.evidence_ok
    /\ last.result.action = "error"

C30_FailedResolveStoredWithErrorText ==
    \A p \in ResolverIds :
        LET r == cache.resolvers[p] IN
        (r.pc = "returned" /\ ~r.data.from_cache /\ ~r.data.is_successful) =>
            /\ ~tr_is_successful(r.data)
            /\ \E row \in get_cached_transcription(cache.rows, r.url) :
                  /\ ~row.is_successful
                  /\ row.error_message # <<>>

C32_OnlyConnectedCallsAreTranscribed ==
    last.returned = "result" =>
        \A i \in 1..Len(last.result.transcription_results) :
            last.result.transcription_results[i].audio_file \notin last.unconnected

(* C33: every result an analysis returns, whatever path ended it (Skip,      *)
(* KeepStatus, ChangeStatus, Error, an exception caught at lead or batch     *)
(* level), has an action set and has been marked completed (end time         *)
(* stamped, processing time derived from start and end time).                *)
C33_EveryResultIsCompleted ==
    /\ last.returned \in {"result", "error_result"} =>
          /\ last.result.action \in {"skip", "keep_status", "change_status", "error"}
          /\ last.result.completed
    /\ \A i \in 1..Len(batch.results) :
          /\ batch.results[i].action \in {"skip", "keep_status", "change_status", "error"}
          /\ batch.results[i].completed

C33_Witness_SkipAndCaughtException ==
    /\ Len(batch.results) = 2
    /\ batch.results[1].action = "skip"
    /\ batch.results[1].completed
    /\ batch.results[2].action = "error"
    /\ batch.results[2].completed
    /\ last.returned = "result"
    /\ last.result.completed

(* C34: every successful verdict with decision false carries a non-empty     *)
(* justification, whichever classifier produced it: the reason bullets of    *)
(* the response when it has any, a generic placeholder otherwise.            *)
C34_DecisionFalseIsJustified ==
    (/\ parsed.pc = "verdict"
     /\ parsed.api_calls = 1
     /\ parsed.verdict[1].error = <<>>
     /\ ~parsed.verdict[1].is_suitable)
    => parsed.verdict[1].reasoning # <<>>

(* C35: a batch holds exactly one result per lead the lead-list query        *)
(* returned, in the order fetched: no lead is missing and none appears       *)
(* twice, also when the save to the ledger raises after the lead's result    *)
(* was added.                                                                *)
C35_OneResultPerFetchedLead ==
    (batch.mode # "idle" \/ batch.outcome = "returned") =>
        /\ Len(batch.results) + Len(batch.queue) = Len(batch.fetched)
        /\ \A i \in 1..Len(batch.results), j \in 1..Len(batch.results) :
              (i # j) => batch.results[i].lead_id # batch.results[j].lead_id
        /\ \A i \in 1..Len(batch.fetched) :
              i <= Len(batch.results) => batch.results[i].lead_id = batch.fetched[i]

(* C36: a lead whose main status is not junk is never written to: analysing  *)
(* it by ID or through the webhook issues no CRM update call, whatever its   *)
(* junk-reason field holds.                                                  *)
C36_NonJunkLeadIsNeverWritten ==
    (/\ last.kind \in {"by_id", "webhook"}
     /\ last.returned = "result"
     /\ last.result.original_status # junk_status_value)
    => last.updates = <<>>

(* a lead an analysis has written back: active, junk reason cleared *)
WrittenBack(l) ==
    crm[l] = [status_id |-> active_status_value, junk_status |-> NoJunk]

(* C40: write-back converges.  Once a lead is active with its junk reason    *)
(* cleared no step writes to it again; every later analysis of it, by a      *)
(* batch, by ID or from the webhook task, issues no update call and makes    *)
(* the CRM post no further event for it, and one that has read the lead ends *)
(* Skip/NotTargetStatus.                                                     *)
C40_WriteBackConverges ==
    [][\A l \in Leads :
          WrittenBack(l) =>
             /\ crm'[l] = crm[l]
             /\ (last.kind = "none" /\ last'.kind # "none" /\ last'.result.lead_id = l) =>
                   /\ last'.updates = <<>>
                   /\ hooks'[l] <= hooks[l]
                   /\ last'.returned = "result" =>
                         /\ last'.result.action = "skip"
                         /\ last'.result.reason = "not_target_status"]_vars

(* the webhook task for the write itself has run and ended in Skip *)
C40_Witness_WebhookAfterWriteSkips ==
    \E l \in Leads :
       /\ WrittenBack(l)
       /\ InitialJunk(l) \in {158, 229}
       /\ last.kind = "webhook"
       /\ last.result.lead_id = l
       /\ last.result.reason = "not_target_status"
       /\ hooks[l] = 0

(* C37: every lead that becomes junk with a recognised reason while the      *)
(* process runs is eventually handed to the decision engine by a new-leads   *)
(* batch, provided batches keep being triggered and the lead-list query      *)
(* succeeds: new-leads batches are started and return their results again   *)
(* and again.                                                                *)
C37_EveryJunkLeadIsEventuallyAnalysed ==
    ([]<>Ready /\ []<>(batch.mode = "idle" /\ batch.outcome = "returned"))
        => \A l \in Leads : (l \in unseen) ~> (l \notin unseen)

(* C38: across any sequence of start() and stop(timeout) calls at most one   *)
(* scheduler loop thread is able to trigger batches: whenever the flags let  *)
(* a loop go on (_running set, stop event clear) at most one loop thread is  *)
(* alive.                                                                    *)
C38_AtMostOneSchedulerLoop ==
    (sched.running /\ ~sched.stop_event)
        => Cardinality({i \in LoopIds : LoopAlive(sched, i)}) <= 1

(* loop thread i leaves _run_analysis by an exception *)
RunFails(i) ==
    sched.loops[i] = "batch" /\ sched'.loops[i] \notin {"batch", "wait60"}

(* the run that was due has been made: the next one lies ahead *)
RunMade ==
    sched.next_run_time > sched.clock

(* C39: a scheduled run that fails does not end the loop and does not        *)
(* consume the run: the step leaves next_run_time as it was and the thread   *)
(* in its error delay; and if stop is never signalled and the runs stop      *)
(* failing from some point on, a failed run is followed by a run that        *)
(* succeeds.                                                                 *)
C39_FailedRunIsRetried ==
    /\ [][\A i \in LoopIds :
             RunFails(i) => /\ sched'.loops[i] = "wait300"
                            /\ sched'.next_run_time = sched.next_run_time]_vars
    /\ ([]~sched.stop_event /\ <>[][\A i \in LoopIds : ~RunFails(i)]_vars)
          => \A i \in LoopIds : (sched.loops[i] = "wait300") ~> RunMade

(* a run has failed: its loop thread is in the error delay, no stop has been *)
(* signalled and the run is still due                                        *)
C39_Witness_FailedRunStillDue ==
    \E i \in LoopIds :
       /\ sched.loops[i] = "wait300"
       /\ sched.running /\ ~sched.stop_event
       /\ sched.next_run_time <= sched.clock

====
